---- MODULE Spec2Model ----
(***************************************************************************)
(* A model of the customer portal: the status-resolution helpers           *)
(* (lib/supabase), the session/profile manager (contexts/AuthContext, and  *)
(* the second AuthProvider that pages/OrderDetail.tsx carries), and the    *)
(* Dashboard, Order Detail and Invoices pages.                             *)
(*                                                                         *)
(* The backend is modelled by its tables and by what a PostgREST request   *)
(* of the supabase client answers: a response is a record                  *)
(* [error, rows]; error is NoError or an error code, rows is the data      *)
(* (.single() answers one row, or the error PGRST116 when the filtered     *)
(* result does not hold exactly one row).  The client does not throw on a  *)
(* failed request: it answers {data: null, error}.                         *)
(***************************************************************************)
EXTENDS Integers, Sequences, FiniteSets, TLC

VARIABLES
    order_status_log,   \* table order_status_log: a set of events
    helperCall,         \* the last call of a status helper against the log as it is
    user,               \* AuthProvider: const [user, setUser]
    payments,           \* table payments: the rows in the order of their creation
    invoices,           \* Invoices: const [invoices, setInvoices]
    invLoading,         \* Invoices: const [loading, setLoading]
    invPc,              \* Invoices: where fetchInvoices stands
    orders,             \* table orders: the rows in the order of their creation
    dashStats,          \* Dashboard: const [stats, setStats]
    recentOrders,       \* Dashboard: const [recentOrders, setRecentOrders]
    recentInvoices,     \* Dashboard: const [recentInvoices, setRecentInvoices]
    dashLoading,        \* Dashboard: const [loading, setLoading]
    dashOrders,         \* Dashboard: fetchDashboardData's local orders, last run
    dashPc,             \* Dashboard: where the effect and fetchDashboardData stand
    odParam,            \* OrderDetail: useParams().orderId
    odOrder,            \* OrderDetail: const [order, setOrder]
    odLoading,          \* OrderDetail: const [loading, setLoading]
    odPc,               \* OrderDetail: where the effect and fetchOrder stand
    impl,               \* which AuthProvider is mounted: "context" or "page"
    session,            \* the identity provider's session: its identity, or null
    customers,          \* table customers: the rows in the order of their creation
    loading,            \* AuthProvider: const [loading, setLoading]
    sessionCheck,       \* AuthProvider: where checkAuth / checkSession stands
    updateCall,         \* AuthProvider: where the last updateProfile call stands
    lastRequest,        \* the last request the AuthProvider sent to the backend
    mounted,            \* AuthProvider: mounted, its subscription not yet unsubscribed
    loginCall,          \* AuthProvider: where the last login call stands
    signupCall,         \* AuthProvider: where the last signup call stands
    logoutCall,         \* AuthProvider: where the last logout call stands
    handler,            \* AuthProvider: where the onAuthStateChange callback stands
    launched,           \* how many calls and notifications there have been
    progressCall,       \* OrderDetail: the last call of isStatusCompleted
    searchQuery,        \* Invoices: const [searchQuery, setSearchQuery]
    statusFilter,       \* Invoices: const [statusFilter, setStatusFilter]
    invoiceId,          \* InvoiceDetail: useParams().invoiceId
    invoice,            \* InvoiceDetail: const [invoice, setInvoice]
    invoiceLoading,     \* InvoiceDetail: const [loading, setLoading]
    invoicePc,          \* InvoiceDetail: where the effect and fetchInvoice stand
    pageCall            \* the pages: the last fetch function that completed

statusVars == <<order_status_log, helperCall>>

invoicesVars == <<payments, invoices, invLoading, invPc>>

listVars == <<searchQuery, statusFilter>>

detailVars == <<invoiceId, invoice, invoiceLoading, invoicePc>>

\* What each component leaves alone.
sessionCalls == <<mounted, loginCall, signupCall, logoutCall, handler, launched>>

authOnly == <<impl, session, customers, loading, sessionCheck, updateCall, lastRequest,
              sessionCalls>>

outsideStatus == <<authOnly, progressCall, pageCall, listVars, detailVars, user, payments, invoices, invLoading, invPc, orders, dashStats,
                   recentOrders, recentInvoices, dashLoading, dashOrders, dashPc,
                   odParam, odOrder, odLoading, odPc>>

beyondInvoices == <<authOnly, progressCall, listVars, detailVars, order_status_log, helperCall, user, orders, dashStats,
                     recentOrders, recentInvoices, dashLoading, dashOrders, dashPc,
                     odParam, odOrder, odLoading, odPc>>

beyondOrders == <<authOnly, progressCall, listVars, detailVars, helperCall, user, invoices, invLoading, invPc>>

outsideInvoices == <<pageCall, beyondInvoices>>

outsideOrders == <<pageCall, beyondOrders>>

dashVars == <<dashStats, recentOrders, recentInvoices, dashLoading, dashOrders, dashPc>>

odVars == <<odParam, odOrder, odLoading, odPc>>

outsideList == <<authOnly, progressCall, pageCall, statusVars, user, orders, dashVars,
                 odVars, detailVars, payments, invoices, invLoading, invPc>>

beyondDetail == <<authOnly, progressCall, statusVars, user, orders, dashVars, odVars,
                  listVars, payments, invoices, invLoading, invPc>>

outsideDetail == <<pageCall, beyondDetail>>

vars == <<order_status_log, helperCall, user, payments, invoices, invLoading, invPc,
          orders, dashStats, recentOrders, recentInvoices, dashLoading, dashOrders,
          dashPc, odParam, odOrder, odLoading, odPc, impl, session, customers,
          loading, sessionCheck, updateCall, lastRequest, mounted, loginCall,
          signupCall, logoutCall, handler, launched, progressCall, searchQuery,
          statusFilter, invoiceId, invoice, invoiceLoading, invoicePc, pageCall>>

outsideAuth == <<progressCall, pageCall, listVars, detailVars, order_status_log, helperCall, payments, invoices, invLoading, invPc,
                 orders, dashStats, recentOrders, recentInvoices, dashLoading,
                 dashOrders, dashPc, odParam, odOrder, odLoading, odPc>>

(***************************************************************************)
(* Bounds of the status-log model.                                         *)
(***************************************************************************)
MaxEvents == 3
MaxTime == 3

\* Two orders: events of one interleave with events of the other.
OrderIds == {1, 2}
Times == 1..MaxTime

(***************************************************************************)
(* lib/supabase: the status enum of OrderStatus.                           *)
(***************************************************************************)
Statuses == {"Pending", "Design", "Printing", "Delivered"}

\* The columns of order_status_log the portal reads.
StatusEvents == [order_id : OrderIds, status : Statuses, updated_at : Times]

(***************************************************************************)
(* The supabase client's answers.                                          *)
(***************************************************************************)
NoError == "none"
PGRST116 == "PGRST116"          \* .single(): the result holds no row, or several
QueryFailed == "failed"         \* any other failure: transport, server, policy

Response(err, rs) == [error |-> err, rows |-> rs]

\* Every sequence that lists the rows of set S once each.
Listings(S) ==
    {f \in [1..Cardinality(S) -> S] :
        \A i, j \in 1..Cardinality(S) : i # j => f[i] # f[j]}

\* .order('updated_at', {ascending}): the orders the database may answer;
\* rows of equal updated_at come in either order.
OrderByUpdatedAt(S, ascending) ==
    {f \in Listings(S) :
        \A i \in 1..(Cardinality(S) - 1) :
            IF ascending THEN f[i].updated_at <= f[i + 1].updated_at
                         ELSE f[i].updated_at >= f[i + 1].updated_at}

\* .limit(n)
Limit(s, n) == SubSeq(s, 1, IF Len(s) < n THEN Len(s) ELSE n)

\* .single()
Single(s) == IF Len(s) = 1 THEN Response(NoError, s) ELSE Response(PGRST116, <<>>)

\* .eq('order_id', orderId)
EventsOf(log, orderId) == {e \in log : e.order_id = orderId}

(***************************************************************************)
(* lib/supabase getOrderStatus: the request and what is made of its answer *)
(***************************************************************************)
\* The answers the request of getOrderStatus can get.
StatusQuery_ascending(log, orderId) ==
    {Response(QueryFailed, <<>>)} \cup
    {Single(Limit(s, 1)) : s \in OrderByUpdatedAt(EventsOf(log, orderId), TRUE)}

StatusQuery(log, orderId) ==
    {Response(QueryFailed, <<>>)} \cup
    {Single(Limit(s, 1)) : s \in OrderByUpdatedAt(EventsOf(log, orderId), FALSE)}

\* No helper was called since the log last changed.
NoCall == [op |-> "none"]

Returned(v) == [kind |-> "returned", value |-> v]
Threw(v) == [kind |-> "threw", value |-> v]

\* JavaScript's a || b on strings
OrElse(a, b) == IF a # "" THEN a ELSE b

getOrderStatus_emptyFallback(resp) ==
    IF resp.error # NoError
    THEN Returned("")
    ELSE Returned(IF resp.rows = <<>> THEN "" ELSE resp.rows[1].status)

getOrderStatus_throwOnError(resp) ==
    IF resp.error # NoError
    THEN Threw(resp.error)
    ELSE Returned(IF resp.rows = <<>> THEN "Pending" ELSE OrElse(resp.rows[1].status, "Pending"))

getOrderStatus(resp) ==
    IF resp.error # NoError
    THEN Returned("Pending")
    ELSE Returned(IF resp.rows = <<>> THEN "Pending" ELSE OrElse(resp.rows[1].status, "Pending"))

(***************************************************************************)
(* lib/supabase getOrderStatusHistory                                      *)
(***************************************************************************)
HistoryQuery_noFilter(log, orderId) ==
    {Response(QueryFailed, <<>>)} \cup
    {Response(NoError, s) : s \in OrderByUpdatedAt(log, TRUE)}

HistoryQuery(log, orderId) ==
    {Response(QueryFailed, <<>>)} \cup
    {Response(NoError, s) : s \in OrderByUpdatedAt(EventsOf(log, orderId), TRUE)}

getOrderStatusHistory_throwOnError(resp) ==
    IF resp.error # NoError THEN Threw(<<>>) ELSE Returned(resp.rows)

getOrderStatusHistory(resp) ==
    IF resp.error # NoError THEN Returned(<<>>) ELSE Returned(resp.rows)

(***************************************************************************)
(* What the pages read of the session manager: the profile, or null.       *)
(***************************************************************************)
Null == [isNull |-> TRUE]

CustomerIds == {"c1", "c2"}

\* A profile as the pages read it (contexts/AuthContext: user).
PageProfile == [id |-> "c1", user_id |-> "u1", total_orders |-> 2, total_spent |-> 150]

(***************************************************************************)
(* pages/Invoices.tsx                                                      *)
(***************************************************************************)
MaxPayments == 3

PaymentStatuses == {"Paid", "Partial", "Due"}

\* total_amount and amount_paid of a payment; the status is stored apart
\* from them.
Amounts == {<<100, 100>>, <<50, 20>>, <<30, 0>>}

\* The payments that get recorded: any of the profile's customer, and one of
\* another customer.
PaymentInputs ==
    ({"c1"} \X Amounts \X PaymentStatuses) \cup {<<"c2", <<50, 20>>, "Paid">>}

\* Text is the sequence of its characters.
\* Payment.id (a string) and Payment.order_id (optional) of the n-th payment
\* that gets recorded.
PaymentId(n) ==
    CASE n = 1 -> <<"a", "b", "c", "1", "2", "3", "4">>
      [] n = 2 -> <<"A", "B", "9">>
      [] n = 3 -> <<"d", "1", "2", "e", "4", "5", "6">>
      [] OTHER -> <<"f", "0", "0", "d", "0", "0", "0", "9">>

PaymentOrderId(n) ==
    CASE n = 1 -> [value |-> 12]
      [] n = 3 -> [value |-> 7]
      [] OTHER -> Null

\* A row of payments; created_at is the row's place n in the table.
PaymentRow(n, customer, amounts, status) ==
    [id |-> PaymentId(n), customer_id |-> customer, order_id |-> PaymentOrderId(n),
     total_amount |-> amounts[1], amount_paid |-> amounts[2], status |-> status]

RECURSIVE Reverse(_)
Reverse(s) == IF s = <<>> THEN <<>> ELSE Append(Reverse(Tail(s)), Head(s))

\* from('payments').select('*').eq('customer_id', id)
\*   .order('created_at', { ascending: false })
PaymentsQuery(table, customerId) ==
    {Response(QueryFailed, <<>>),
     Response(NoError,
              Reverse(SelectSeq(table, LAMBDA r : r.customer_id = customerId)))}

\* array.reduce((sum, x) => sum + f(x), 0)
RECURSIVE SumSeq(_)
SumSeq(nums) == IF Len(nums) = 0 THEN 0 ELSE Head(nums) + SumSeq(Tail(nums))

ReduceSum(s, F(_)) == SumSeq([i \in 1..Len(s) |-> F(s[i])])

totals_paidOverAll(invs) ==
    [total |-> ReduceSum(invs, LAMBDA inv : inv.total_amount),
     paid |-> ReduceSum(invs, LAMBDA inv : inv.amount_paid),
     pending |-> ReduceSum(SelectSeq(invs, LAMBDA inv : inv.status = "Due" \/ inv.status = "Partial"),
                           LAMBDA inv : inv.total_amount - inv.amount_paid)]

totals(invs) ==
    [total |-> ReduceSum(invs, LAMBDA inv : inv.total_amount),
     paid |-> ReduceSum(SelectSeq(invs, LAMBDA inv : inv.status = "Paid"),
                        LAMBDA inv : inv.amount_paid),
     pending |-> ReduceSum(SelectSeq(invs, LAMBDA inv : inv.status = "Due" \/ inv.status = "Partial"),
                           LAMBDA inv : inv.total_amount - inv.amount_paid)]

\* String.prototype.toLowerCase, on the letters A-Z.
UpperCaseLetters ==
    <<"A", "B", "C", "D", "E", "F", "G", "H", "I", "J", "K", "L", "M",
      "N", "O", "P", "Q", "R", "S", "T", "U", "V", "W", "X", "Y", "Z">>

LowerCaseLetters ==
    <<"a", "b", "c", "d", "e", "f", "g", "h", "i", "j", "k", "l", "m",
      "n", "o", "p", "q", "r", "s", "t", "u", "v", "w", "x", "y", "z">>

LowerChar(c) ==
    IF \E i \in 1..Len(UpperCaseLetters) : UpperCaseLetters[i] = c
    THEN LowerCaseLetters[CHOOSE i \in 1..Len(UpperCaseLetters) : UpperCaseLetters[i] = c]
    ELSE c

toLowerCase(s) == [i \in 1..Len(s) |-> LowerChar(s[i])]

\* String.prototype.includes
includes(s, q) ==
    \E i \in 0..(Len(s) - Len(q)) : SubSeq(s, i + 1, i + Len(q)) = q

\* s.slice(-n)
SliceLast(s, n) == IF Len(s) <= n THEN s ELSE SubSeq(s, Len(s) - n + 1, Len(s))

\* `${n}` of a number n >= 0
DigitChars == <<"0", "1", "2", "3", "4", "5", "6", "7", "8", "9">>

RECURSIVE NumberToString(_)
NumberToString(n) ==
    IF n < 10 THEN <<DigitChars[n + 1]>>
    ELSE Append(NumberToString(n \div 10), DigitChars[(n % 10) + 1])

\* The characters of a Payment.status.
StatusChars(status) ==
    CASE status = "Paid" -> <<"P", "a", "i", "d">>
      [] status = "Partial" -> <<"P", "a", "r", "t", "i", "a", "l">>
      [] status = "Due" -> <<"D", "u", "e">>

\* invoice.order_id ? ... : ...
HasOrderId(inv) == inv.order_id # Null /\ inv.order_id.value # 0

\* `INV-${invoice.id.slice(-6)}`
InvoiceLabel(inv) == <<"I", "N", "V", "-">> \o SliceLast(inv.id, 6)

\* invoice.order_id ? `ORD-${invoice.order_id}` : ''
OrderLabel(inv) ==
    IF HasOrderId(inv)
    THEN <<"O", "R", "D", "-">> \o NumberToString(inv.order_id.value)
    ELSE <<>>

All == <<"a", "l", "l">>

\* const filteredInvoices = invoices.filter(invoice => ...)
filteredInvoices_caseSensitive(invs, query, filter) ==
    SelectSeq(invs, LAMBDA inv :
        LET matchesSearch ==
                \/ includes(InvoiceLabel(inv), query)
                \/ includes(OrderLabel(inv), query)
            matchesStatus ==
                \/ filter = All
                \/ toLowerCase(StatusChars(inv.status)) = toLowerCase(filter)
        IN matchesSearch /\ matchesStatus)

filteredInvoices(invs, query, filter) ==
    SelectSeq(invs, LAMBDA inv :
        LET matchesSearch ==
                \/ includes(toLowerCase(InvoiceLabel(inv)), toLowerCase(query))
                \/ includes(toLowerCase(OrderLabel(inv)), toLowerCase(query))
            matchesStatus ==
                \/ filter = All
                \/ toLowerCase(StatusChars(inv.status)) = toLowerCase(filter)
        IN matchesSearch /\ matchesStatus)

\* What the page renders from its state: the three summary cards and the
\* rows of the list.
InvoicesRender_totalsOfFiltered ==
    [totals |-> totals(filteredInvoices(invoices, searchQuery, statusFilter)),
     list |-> filteredInvoices(invoices, searchQuery, statusFilter)]

InvoicesRender ==
    [totals |-> totals(invoices),
     list |-> filteredInvoices(invoices, searchQuery, statusFilter)]

\* What gets typed into the search box.
SearchQueries ==
    {<<>>, <<"i", "n", "v", "-">>, <<"B", "C", "1">>, <<"a", "b">>, <<"1", "2">>,
     <<"O", "r", "d", "-", "7">>, <<"a", "b", "c">>, <<"x">>}

\* <option value="all">, "paid", "partial", "due"
StatusFilters ==
    {All, <<"p", "a", "i", "d">>, <<"p", "a", "r", "t", "i", "a", "l">>, <<"d", "u", "e">>}

\* The page as it mounts: useState([]), useState(true), useState(''),
\* useState('all').
InvoicesMounted ==
    /\ invoices = <<>>
    /\ invLoading = TRUE
    /\ invPc = "idle"
    /\ searchQuery = <<>>
    /\ statusFilter = All

\* onChange={(e) => setSearchQuery(e.target.value)}
SetSearchQuery ==
    \E value \in SearchQueries :
        /\ searchQuery' = value
        /\ UNCHANGED <<statusFilter, outsideList>>

\* onChange={(e) => setStatusFilter(e.target.value)}
SetStatusFilter ==
    \E value \in StatusFilters :
        /\ statusFilter' = value
        /\ UNCHANGED <<searchQuery, outsideList>>

\* A payment is recorded (by the back office; the portal only reads).
InsertPayment ==
    \E in \in PaymentInputs :
        /\ Len(payments) < MaxPayments
        /\ payments' = Append(payments, PaymentRow(Len(payments) + 1, in[1], in[2], in[3]))
        /\ UNCHANGED <<invoices, invLoading, invPc, outsideInvoices>>

\* try { ... if (error) throw error ... } catch (error) { console.error(...) }
\* finally { ... }: what a fetch function of a page ends in when its try block
\* threw error, or threw nothing (NoError).
CatchAndLog_rethrow(error) ==
    IF error # NoError THEN Threw(error) ELSE Returned(Null)

CatchAndLog(error) == Returned(Null)

\* The record of a fetch function that completed: what its try block threw,
\* and what the function ended in.
PageCall(error) == [error |-> error, outcome |-> CatchAndLog(error)]

\* fetchInvoices up to its request: if (!user) return; setLoading(true)
FetchInvoicesStart ==
    /\ invPc = "idle"
    /\ user # Null
    /\ invLoading' = TRUE
    /\ invPc' = "fetching"
    /\ UNCHANGED <<payments, invoices, outsideInvoices>>

\* fetchInvoices from the answer on: throw into catch, or setInvoices; finally
FetchInvoicesDone ==
    /\ invPc = "fetching"
    /\ \E resp \in PaymentsQuery(payments, user.id) :
          /\ invoices' = IF resp.error # NoError THEN invoices ELSE resp.rows
          /\ pageCall' = PageCall(resp.error)
    /\ invLoading' = FALSE
    /\ invPc' = "idle"
    /\ UNCHANGED <<payments, beyondInvoices>>

(***************************************************************************)
(* pages/InvoiceDetail.tsx (fetchInvoice)                                  *)
(***************************************************************************)
\* The invoice ids the route is opened with.
InvoiceParams == {PaymentId(1), PaymentId(2), <<"n", "o">>, <<>>}

\* from('payments').select('*').eq('id', invoiceId)
\*   .eq('customer_id', id).single()
InvoiceQuery_anyCustomer(table, id, customerId) ==
    {Response(QueryFailed, <<>>),
     Single(SelectSeq(table, LAMBDA r : r.id = id))}

InvoiceQuery(table, id, customerId) ==
    {Response(QueryFailed, <<>>),
     Single(SelectSeq(table, LAMBDA r : r.id = id /\ r.customer_id = customerId))}

\* The page as it mounts on the route of id; its effect is still to run.
InvoiceDetailMounted(id) ==
    /\ invoiceId = id
    /\ invoice = Null
    /\ invoiceLoading = TRUE
    /\ invoicePc = "mounted"

\* The page is mounted anew, on the route of some invoice id.
InvoiceDetailMount ==
    \E id \in InvoiceParams :
        /\ invoiceId' = id
        /\ invoice' = Null
        /\ invoiceLoading' = TRUE
        /\ invoicePc' = "mounted"
        /\ UNCHANGED outsideDetail

\* useEffect: if (user && invoiceId) fetchInvoice(); the function up to its
\* request: setLoading(true)
InvoiceDetailEffect ==
    /\ invoicePc = "mounted"
    /\ IF user = Null \/ invoiceId = <<>>
       THEN invoicePc' = "idle" /\ UNCHANGED invoiceLoading
       ELSE invoicePc' = "fetching" /\ invoiceLoading' = TRUE
    /\ UNCHANGED <<invoiceId, invoice, outsideDetail>>

FetchInvoiceDone_noFinally ==
    /\ invoicePc = "fetching"
    /\ \E resp \in InvoiceQuery(payments, invoiceId, user.id) :
          /\ invoice' = IF resp.error # NoError THEN invoice ELSE resp.rows[1]
          /\ invoiceLoading' = IF resp.error # NoError THEN invoiceLoading ELSE FALSE
          /\ pageCall' = PageCall(resp.error)
    /\ invoicePc' = "idle"
    /\ UNCHANGED <<invoiceId, beyondDetail>>

\* fetchInvoice from the answer on: throw into catch, or setInvoice; finally
FetchInvoiceDone ==
    /\ invoicePc = "fetching"
    /\ \E resp \in InvoiceQuery(payments, invoiceId, user.id) :
          /\ invoice' = IF resp.error # NoError THEN invoice ELSE resp.rows[1]
          /\ pageCall' = PageCall(resp.error)
    /\ invoiceLoading' = FALSE
    /\ invoicePc' = "idle"
    /\ UNCHANGED <<invoiceId, beyondDetail>>

(***************************************************************************)
(* The orders table, as the Dashboard and Order Detail read it.            *)
(***************************************************************************)
MaxOrders == 2

\* The client clock: new Date().getMonth(), new Date().getFullYear()
Today == [month |-> 10, year |-> 2026]

OrderDates == {[month |-> 10, year |-> 2026], [month |-> 10, year |-> 2025]}

\* The orders that get recorded, each with the status the back office logs
\* for it ("" for none): any order of the profile's customer, and one of
\* another customer.
OrderInputs ==
    ({"c1"} \X BOOLEAN \X OrderDates \X {"", "Printing", "Delivered"})
        \cup {<<"c2", FALSE, [month |-> 10, year |-> 2026], "Printing">>}

\* A row of orders; created_at is the row's place in the table.
OrderRow(id, in) ==
    [id |-> id, customer_id |-> in[1], is_deleted |-> in[2], date |-> in[3],
     total_amount |-> 40]

\* An order is recorded, with its first status event if any (by the back
\* office; the portal only reads).
InsertOrder ==
    \E in \in OrderInputs :
        /\ Len(orders) < MaxOrders
        /\ orders' = Append(orders, OrderRow(Len(orders) + 1, in))
        /\ order_status_log' =
             IF in[4] = "" THEN order_status_log
             ELSE order_status_log \cup
                    {[order_id |-> Len(orders) + 1, status |-> in[4], updated_at |-> 1]}
        /\ UNCHANGED <<payments, dashVars, odVars, outsideOrders>>

(***************************************************************************)
(* Dashboard (fetchDashboardData)                                          *)
(***************************************************************************)
\* from('orders').select('*').eq('customer_id', id).eq('is_deleted', false)
\*   .order('created_at', { ascending: false })
DashboardOrdersQuery_withDeleted(table, customerId) ==
    {Response(QueryFailed, <<>>),
     Response(NoError,
              Reverse(SelectSeq(table, LAMBDA r : r.customer_id = customerId)))}

DashboardOrdersQuery(table, customerId) ==
    {Response(QueryFailed, <<>>),
     Response(NoError,
              Reverse(SelectSeq(table,
                  LAMBDA r : r.customer_id = customerId /\ r.is_deleted = FALSE)))}

\* array.slice(0, n)
Slice0(s, n) == SubSeq(s, 1, IF Len(s) < n THEN Len(s) ELSE n)

\* What a getOrderStatus(orderId) call can end in against the log.
StatusOutcomes(log, orderId) ==
    {getOrderStatus(resp) : resp \in StatusQuery(log, orderId)}

\* Promise.all(list.map(order => getOrderStatus(order.id))): what the calls can
\* end in, call by call.
StatusOutcomeLists(log, list) ==
    {f \in [1..Len(list) ->
              UNION {StatusOutcomes(log, list[i].id) : i \in 1..Len(list)}] :
        \A i \in 1..Len(list) : f[i] \in StatusOutcomes(log, list[i].id)}

\* orderDate.getMonth() === currentMonth && orderDate.getFullYear() === currentYear
InThisMonth(order) ==
    order.date.month = Today.month /\ order.date.year = Today.year

\* status === 'Pending' || status === 'Design' || status === 'Printing'
IsPendingStatus(status) ==
    status = "Pending" \/ status = "Design" \/ status = "Printing"

\* user.total_orders || 0
NumberOrZero(n) == IF n # 0 THEN n ELSE 0

InitialStats == [totalOrders |-> 0, pendingOrders |-> 0, totalSpent |-> 0, thisMonth |-> 0]

\* The page as it mounts; its effect is still to run.
DashboardMounted ==
    /\ dashStats = InitialStats
    /\ recentOrders = <<>>
    /\ recentInvoices = <<>>
    /\ dashLoading = TRUE
    /\ dashOrders = <<>>
    /\ dashPc = "mounted"

\* The page is mounted anew.
DashboardMount ==
    /\ dashStats' = InitialStats
    /\ recentOrders' = <<>>
    /\ recentInvoices' = <<>>
    /\ dashLoading' = TRUE
    /\ dashOrders' = <<>>
    /\ dashPc' = "mounted"
    /\ UNCHANGED <<orders, order_status_log, payments, odVars, outsideOrders>>

\* useEffect: if (user) fetchDashboardData(); the function up to its first
\* request: setLoading(true)
DashboardEffect ==
    /\ dashPc = "mounted"
    /\ IF user = Null
       THEN dashPc' = "idle" /\ UNCHANGED dashLoading
       ELSE dashPc' = "fetching" /\ dashLoading' = TRUE
    /\ UNCHANGED <<dashStats, recentOrders, recentInvoices, dashOrders,
                   orders, order_status_log, payments, odVars, outsideOrders>>

\* fetchDashboardData from the answer of its first request on.
FetchDashboardDataDone ==
    /\ dashPc = "fetching"
    /\ \E ordersResp \in DashboardOrdersQuery(orders, user.id),
          paymentsResp \in PaymentsQuery(payments, user.id) :
         IF ordersResp.error # NoError \/ paymentsResp.error # NoError
         THEN \* throw ordersError / paymentsError: into catch
              /\ pageCall' = PageCall(IF ordersResp.error # NoError
                                      THEN ordersResp.error ELSE paymentsResp.error)
              /\ UNCHANGED <<dashStats, recentOrders, recentInvoices, dashOrders>>
         ELSE LET fetched == ordersResp.rows
                  recent == Slice0(fetched, 3)
              IN \E recentSt \in StatusOutcomeLists(order_status_log, recent),
                    pendSt \in StatusOutcomeLists(order_status_log, fetched) :
                   /\ dashOrders' = fetched
                   /\ IF \/ (\E i \in 1..Len(recent) : recentSt[i].kind = "threw")
                         \/ (\E j \in 1..Len(fetched) : pendSt[j].kind = "threw")
                      THEN \* Promise.all rejects: into catch
                           /\ pageCall' = PageCall(QueryFailed)
                           /\ UNCHANGED <<dashStats, recentOrders, recentInvoices>>
                      ELSE /\ pageCall' = PageCall(NoError)
                           /\ dashStats' =
                                [totalOrders |-> NumberOrZero(user.total_orders),
                                 pendingOrders |->
                                     Cardinality({i \in 1..Len(fetched) :
                                                     IsPendingStatus(pendSt[i].value)}),
                                 totalSpent |-> NumberOrZero(user.total_spent),
                                 thisMonth |->
                                     ReduceSum(SelectSeq(fetched, InThisMonth),
                                               LAMBDA o : NumberOrZero(o.total_amount))]
                           /\ recentOrders' =
                                [i \in 1..Len(recent) |->
                                    [order |-> recent[i], status |-> recentSt[i].value]]
                           /\ recentInvoices' = Slice0(paymentsResp.rows, 3)
    /\ dashLoading' = FALSE
    /\ dashPc' = "idle"
    /\ UNCHANGED <<orders, order_status_log, payments, odVars, beyondOrders>>

(***************************************************************************)
(* pages/OrderDetail.tsx (fetchOrder)                                      *)
(***************************************************************************)
NaN == -1

DigitValue == [c \in {"0", "1", "2", "3", "4", "5", "6", "7", "8", "9"} |->
                 CASE c = "0" -> 0 [] c = "1" -> 1 [] c = "2" -> 2 [] c = "3" -> 3
                   [] c = "4" -> 4 [] c = "5" -> 5 [] c = "6" -> 6 [] c = "7" -> 7
                   [] c = "8" -> 8 [] c = "9" -> 9]

\* The value of the digits that s starts with, after the digits of value acc.
RECURSIVE ParseDigits(_, _)
ParseDigits(s, acc) ==
    IF s = <<>> \/ Head(s) \notin DOMAIN DigitValue THEN acc
    ELSE ParseDigits(Tail(s), 10 * acc + DigitValue[Head(s)])

\* parseInt(orderId): the number its leading digits spell, NaN if it has none.
ParseInt(s) ==
    IF s = <<>> \/ Head(s) \notin DOMAIN DigitValue THEN NaN ELSE ParseDigits(s, 0)

\* The order ids the route is opened with, as the characters of the parameter.
RouteParams == {<<"1">>, <<"2">>, <<"2", "x">>, <<"x">>}

\* from('orders').select('*').eq('id', n).eq('customer_id', id)
\*   .eq('is_deleted', false).single()
OrderQuery(table, orderIdNum, customerId) ==
    {Response(QueryFailed, <<>>),
     Single(SelectSeq(table,
         LAMBDA r : /\ r.id = orderIdNum
                    /\ r.customer_id = customerId
                    /\ r.is_deleted = FALSE))}

\* The page as it mounts on the route of orderId; its effect is still to run.
OrderDetailMounted(orderId) ==
    /\ odParam = orderId
    /\ odOrder = Null
    /\ odLoading = TRUE
    /\ odPc = [at |-> "mounted"]

\* The page is mounted anew, on the route of some order id.
OrderDetailMount ==
    \E orderId \in RouteParams :
        /\ odParam' = orderId
        /\ odOrder' = Null
        /\ odLoading' = TRUE
        /\ odPc' = [at |-> "mounted"]
        /\ UNCHANGED <<orders, order_status_log, payments, dashVars, outsideOrders>>

\* useEffect: if (user && orderId) fetchOrder(); the function up to its
\* request: setLoading(true), parseInt(orderId)
OrderDetailEffect ==
    /\ odPc.at = "mounted"
    /\ IF user = Null \/ odParam = <<>>
       THEN odPc' = [at |-> "idle"] /\ UNCHANGED odLoading
       ELSE odPc' = [at |-> "order"] /\ odLoading' = TRUE
    /\ UNCHANGED <<odParam, odOrder, orders, order_status_log, payments, dashVars,
                   outsideOrders>>

\* fetchOrder from the answer of the orders request: throw into catch and
\* finally, or go on to getOrderStatusHistory.
FetchOrderAnswered ==
    /\ odPc.at = "order"
    /\ \E resp \in OrderQuery(orders, ParseInt(odParam), user.id) :
         IF resp.error # NoError
         THEN /\ odLoading' = FALSE
              /\ odPc' = [at |-> "idle"]
              /\ pageCall' = PageCall(resp.error)
         ELSE /\ odPc' = [at |-> "history", data |-> resp.rows[1]]
              /\ UNCHANGED <<odLoading, pageCall>>
    /\ UNCHANGED <<odParam, odOrder, orders, order_status_log, payments, dashVars,
                   beyondOrders>>

\* const currentStatus = statusHistory.length > 0
\*   ? statusHistory[statusHistory.length - 1].status : 'Pending'
currentStatusOf(statusHistory) ==
    IF Len(statusHistory) > 0
    THEN statusHistory[Len(statusHistory)].status
    ELSE "Pending"

\* fetchOrder from the return of getOrderStatusHistory on.
FetchOrderHistoryReturned ==
    /\ odPc.at = "history"
    /\ \E resp \in HistoryQuery(order_status_log, ParseInt(odParam)) :
         LET out == getOrderStatusHistory(resp)
         IN IF out.kind = "threw"
            THEN /\ pageCall' = PageCall(QueryFailed)
                 /\ UNCHANGED odOrder
            ELSE LET statusHistory == out.value
                 IN /\ pageCall' = PageCall(NoError)
                    /\ odOrder' =
                         [data |-> odPc.data,
                          status |-> currentStatusOf(statusHistory),
                          statusHistory |-> statusHistory]
    /\ odLoading' = FALSE
    /\ odPc' = [at |-> "idle"]
    /\ UNCHANGED <<odParam, orders, order_status_log, payments, dashVars, beyondOrders>>

\* const statusOrder = ['Pending', 'Design', 'Printing', 'Delivered']
statusOrder == <<"Pending", "Design", "Printing", "Delivered">>

\* Array.prototype.indexOf: the first place of x in s counted from 0, or -1.
IndexOf(s, x) ==
    IF \E i \in 1..Len(s) : s[i] = x
    THEN (CHOOSE i \in 1..Len(s) : s[i] = x /\ \A j \in 1..(i - 1) : s[j] # x) - 1
    ELSE -1

isStatusCompleted_strict(status, currentStatus) ==
    IndexOf(statusOrder, status) < IndexOf(statusOrder, currentStatus)

isStatusCompleted(status, currentStatus) ==
    IndexOf(statusOrder, status) <= IndexOf(statusOrder, currentStatus)

\* The labels isStatusCompleted is called with: its parameters are strings,
\* and Order.status is any string.
StatusLabels ==
    {"Pending", "Design", "Printing", "Delivered",
     "pending", "design", "printing", "delivered", "", "Cancelled", "Shipped"}

CallIsStatusCompleted ==
    /\ \E status \in StatusLabels, currentStatus \in StatusLabels :
         progressCall' = [op |-> "isStatusCompleted", status |-> status,
                          currentStatus |-> currentStatus,
                          outcome |-> Returned(isStatusCompleted(status, currentStatus))]
    /\ UNCHANGED <<statusVars, user, invoicesVars, listVars, detailVars, pageCall, orders, dashVars,
                   odVars, authOnly>>

(***************************************************************************)
(* The session / profile manager: contexts/AuthContext.tsx ("context") and *)
(* the AuthProvider that pages/OrderDetail.tsx carries ("page").           *)
(*                                                                         *)
(* Text is a sequence of characters; a value that may be undefined or null *)
(* is Undefined or Str(text).                                              *)
(***************************************************************************)
Undefined == [defined |-> FALSE]
Str(chars) == [defined |-> TRUE, chars |-> chars]

\* JavaScript's truthiness of a string that may be undefined
Truthy(x) == x.defined /\ x.chars # <<>>

\* a || b
Or(a, b) == IF Truthy(a) THEN a ELSE b

\* The characters of s before its first sep: s.split(sep)[0]
RECURSIVE SplitFirst(_, _)
SplitFirst(s, sep) ==
    IF s = <<>> \/ Head(s) = sep THEN <<>>
    ELSE <<Head(s)>> \o SplitFirst(Tail(s), sep)

\* email?.split('@')[0]
EmailLocalPart(email) ==
    IF email.defined THEN Str(SplitFirst(email.chars, "@")) ELSE Undefined

CustomerText == <<"C", "u", "s", "t", "o", "m", "e", "r">>

\* The identities of the provider: auth.users rows as the client sees them.
IdentityNames == {Undefined, Str(<<>>), Str(<<"A", "n", "n">>)}
IdentityEmails == {Undefined, Str(<<"b", "o", "@", "x">>), Str(<<"@", "x">>), Str(<<"b", "o">>)}

Identities ==
    {[id |-> 101, email |-> e, phone |-> Undefined,
      user_metadata |-> [name |-> n, company |-> Undefined]] :
        e \in IdentityEmails, n \in IdentityNames}

\* A customers row that exists before the portal is opened.
ExistingCustomer(id, userId) ==
    [id |-> id, user_id |-> userId, name |-> <<"O", "l", "d">>, email |-> Undefined,
     phone |-> <<>>, company_name |-> Undefined, total_orders |-> 2, total_spent |-> 150]

\* The customers tables the portal is opened on: with or without a profile
\* of the identity, with or without the profile of another identity.
InitialCustomers ==
    {<<>>,
     <<ExistingCustomer(1, 102)>>,
     <<ExistingCustomer(1, 101)>>,
     <<ExistingCustomer(1, 102), ExistingCustomer(2, 101)>>}

NoRequest == [table |-> "none"]

\* from('customers').select('*').eq('user_id', id).single()
CustomerByUserIdRequest(userId) ==
    [table |-> "customers", op |-> "select", column |-> "user_id", value |-> userId]

CustomerByUserIdQuery(table, userId) ==
    {Response(QueryFailed, <<>>),
     Single(SelectSeq(table, LAMBDA r : r.user_id = userId))}

\* fetchUserProfile: const newCustomer = {...}
name_emailFirst(authUser) ==
    Or(Or(EmailLocalPart(authUser.email), authUser.user_metadata.name), Str(CustomerText)).chars

NewCustomerName(authUser) ==
    Or(Or(authUser.user_metadata.name, EmailLocalPart(authUser.email)), Str(CustomerText)).chars

NewCustomer(authUser) ==
    [user_id |-> authUser.id,
     name |-> NewCustomerName(authUser),
     email |-> authUser.email,
     phone |-> Or(authUser.phone, Str(<<>>)).chars,
     company_name |-> Or(authUser.user_metadata.company, Undefined),
     total_orders |-> 0,
     total_spent |-> 0]

\* from('customers').insert([row]).select().single(): the request
InsertCustomerRequest(row) ==
    [table |-> "customers", op |-> "insert", row |-> row]

\* The row as the database stores it: with the id it generates.
StoredCustomer(table, row) ==
    [id |-> Len(table) + 1, user_id |-> row.user_id, name |-> row.name,
     email |-> row.email, phone |-> row.phone, company_name |-> row.company_name,
     total_orders |-> row.total_orders, total_spent |-> row.total_spent]

\* What the insert can do: the answer, and the table after it.
InsertCustomer(table, row) ==
    {[resp |-> Response(QueryFailed, <<>>), table |-> table],
     [resp |-> Response(NoError, <<StoredCustomer(table, row)>>),
      table |-> Append(table, StoredCustomer(table, row))]}

FetchUserProfileFound_alwaysNull(resp) == Returned(Null)

\* What fetchUserProfile makes of the answer to its select, when that is not
\* the 'no row' error: the customer, or null.
FetchUserProfileFound(resp) ==
    IF resp.error # NoError THEN Returned(Null) ELSE Returned(resp.rows[1])

\* What fetchUserProfile makes of the answer to its insert.
FetchUserProfileCreated(resp) ==
    IF resp.error # NoError THEN Returned(Null) ELSE Returned(resp.rows[1])

\* No call of login, signup or logout yet, no notification yet.
SessionCallsIdle ==
    /\ mounted = TRUE
    /\ loginCall = [at |-> "idle"]
    /\ signupCall = [at |-> "idle"]
    /\ logoutCall = [at |-> "idle"]
    /\ handler = [at |-> "idle"]
    /\ launched = 0

\* The provider as it mounts: useState(null), useState(true); the effect's
\* checkAuth / checkSession is still to run.
AuthProviderMounted ==
    /\ user = Null
    /\ loading = TRUE
    /\ sessionCheck = [at |-> "start"]
    /\ updateCall = [at |-> "idle"]
    /\ lastRequest = NoRequest
    /\ SessionCallsIdle

\* The provider, for the specifications that take the profile as given.
AuthProviderUnused ==
    /\ impl = "context"
    /\ session = Null
    /\ customers = <<>>
    /\ loading = FALSE
    /\ sessionCheck = [at |-> "done"]
    /\ updateCall = [at |-> "idle"]
    /\ lastRequest = NoRequest
    /\ SessionCallsIdle

\* checkAuth / checkSession up to the request for the profile:
\* getSession(); if (session?.user) ... ; setLoading(false)
SessionCheckStart ==
    /\ sessionCheck.at = "start"
    /\ IF session = Null
       THEN /\ loading' = FALSE
            /\ sessionCheck' = [at |-> "done"]
            /\ UNCHANGED lastRequest
       ELSE /\ sessionCheck' = [at |-> "select", authUser |-> session]
            /\ lastRequest' = CustomerByUserIdRequest(session.id)
            /\ UNCHANGED loading
    /\ UNCHANGED <<impl, session, customers, user, updateCall, sessionCalls, outsideAuth>>

\* contexts/AuthContext.tsx: fetchUserProfile from the answer of its select
\* on, and checkAuth after it: setUser(profile); finally setLoading(false)
FetchUserProfileSelectAnswered ==
    /\ impl = "context"
    /\ sessionCheck.at = "select"
    /\ \E resp \in CustomerByUserIdQuery(customers, sessionCheck.authUser.id) :
         IF resp.error = PGRST116
         THEN /\ sessionCheck' = [at |-> "insert", authUser |-> sessionCheck.authUser,
                                  newCustomer |-> NewCustomer(sessionCheck.authUser)]
              /\ lastRequest' = InsertCustomerRequest(NewCustomer(sessionCheck.authUser))
              /\ UNCHANGED <<user, loading>>
         ELSE /\ sessionCheck' = [at |-> "done", authUser |-> sessionCheck.authUser,
                                  selectError |-> resp.error,
                                  outcome |-> FetchUserProfileFound(resp)]
              /\ user' = FetchUserProfileFound(resp).value
              /\ loading' = FALSE
              /\ UNCHANGED lastRequest
    /\ UNCHANGED <<impl, session, customers, updateCall, sessionCalls, outsideAuth>>

\* contexts/AuthContext.tsx: fetchUserProfile from the answer of its insert
\* on, and checkAuth after it.
FetchUserProfileInsertAnswered ==
    /\ impl = "context"
    /\ sessionCheck.at = "insert"
    /\ \E done \in InsertCustomer(customers, sessionCheck.newCustomer) :
         LET out == FetchUserProfileCreated(done.resp)
         IN /\ customers' = done.table
            /\ sessionCheck' = [at |-> "done", authUser |-> sessionCheck.authUser,
                                selectError |-> PGRST116,
                                createError |-> done.resp.error,
                                before |-> customers, after |-> done.table,
                                outcome |-> out]
            /\ IF out.kind = "threw"
               THEN UNCHANGED user
               ELSE user' = out.value
    /\ loading' = FALSE
    /\ UNCHANGED <<impl, session, updateCall, lastRequest, sessionCalls, outsideAuth>>

\* pages/OrderDetail.tsx: setUser({ ...profile, id: profile.user_id })
WithIdentityAsId(profile) == [profile EXCEPT !.id = profile.user_id]

\* pages/OrderDetail.tsx: checkSession from the answer of its select on:
\* if (profile) setUser(...); setLoading(false)
CheckSessionAnswered ==
    /\ impl = "page"
    /\ sessionCheck.at = "select"
    /\ \E resp \in CustomerByUserIdQuery(customers, sessionCheck.authUser.id) :
         /\ user' = IF resp.rows # <<>> THEN WithIdentityAsId(resp.rows[1]) ELSE user
         /\ sessionCheck' = [at |-> "done", authUser |-> sessionCheck.authUser,
                             selectError |-> resp.error]
    /\ loading' = FALSE
    /\ UNCHANGED <<impl, session, customers, updateCall, lastRequest, sessionCalls, outsideAuth>>

(***************************************************************************)
(* login, signup, logout and the onAuthStateChange callback                *)
(* (contexts/AuthContext.tsx; in pages/OrderDetail.tsx the three calls     *)
(* have empty bodies and only the callback acts).                          *)
(***************************************************************************)
MaxLaunches == 3

\* The account the portal's user signs in to or signs up for.
Account ==
    [id |-> 101, email |-> Str(<<"b", "o", "@", "x">>), phone |-> Undefined,
     user_metadata |-> [name |-> Str(<<"A", "n", "n">>), company |-> Undefined]]

\* What signInWithPassword / signUp can answer: an error, or the identity.
AuthAnswers(message) ==
    {[error |-> message], [error |-> NoError, user |-> Account]}

\* new Error(error instanceof Error ? error.message : fallback): the
\* provider's error is an Error, its message is kept.
Rethrown(message, fallback) == IF message # "" THEN message ELSE fallback

InFlight(call) == call.at \in {"auth", "select", "insert", "signOut"}

\* login up to its request: setLoading(true); signInWithPassword(...)
\* The calls and the notifications come after getSession(), which the
\* provider's client answers first.
LoginCall ==
    /\ mounted
    /\ impl = "context"
    /\ sessionCheck.at # "start"
    /\ ~InFlight(loginCall)
    /\ launched < MaxLaunches
    /\ launched' = launched + 1
    /\ loading' = TRUE
    /\ loginCall' = [at |-> "auth"]
    /\ UNCHANGED <<impl, session, customers, user, sessionCheck, updateCall, lastRequest,
                   mounted, signupCall, logoutCall, handler, outsideAuth>>

login_resolveOnError(answer) ==
    /\ loginCall' = [at |-> "select", authError |-> answer.error, authUser |-> Account]
    /\ lastRequest' = CustomerByUserIdRequest(Account.id)
    /\ session' = Account
    /\ UNCHANGED loading

\* login from the provider's answer on: if (error) throw error;
\* if (data.user) profile = await fetchUserProfile(data.user) ...
\* catch: throw new Error(...); finally: setLoading(false)
login(answer) ==
    IF answer.error # NoError
    THEN /\ loginCall' = [at |-> "threw", authError |-> answer.error,
                          error |-> Rethrown(answer.error, "Login failed")]
         /\ loading' = FALSE
         /\ UNCHANGED <<session, lastRequest>>
    ELSE /\ loginCall' = [at |-> "select", authError |-> NoError, authUser |-> answer.user]
         /\ lastRequest' = CustomerByUserIdRequest(answer.user.id)
         /\ session' = answer.user
         /\ UNCHANGED loading

LoginAuthAnswered ==
    /\ loginCall.at = "auth"
    /\ \E answer \in AuthAnswers("Invalid login credentials") : login(answer)
    /\ UNCHANGED <<impl, customers, user, sessionCheck, updateCall,
                   mounted, signupCall, logoutCall, handler, launched, outsideAuth>>

\* login: fetchUserProfile from the answer of its select on, then
\* setUser(profile); finally setLoading(false)
LoginSelectAnswered ==
    /\ loginCall.at = "select"
    /\ \E resp \in CustomerByUserIdQuery(customers, loginCall.authUser.id) :
         IF resp.error = PGRST116
         THEN /\ loginCall' = [at |-> "insert", authUser |-> loginCall.authUser,
                               newCustomer |-> NewCustomer(loginCall.authUser)]
              /\ lastRequest' = InsertCustomerRequest(NewCustomer(loginCall.authUser))
              /\ UNCHANGED <<user, loading>>
         ELSE /\ loginCall' = [at |-> "returned", authUser |-> loginCall.authUser,
                               selectError |-> resp.error, table |-> customers,
                               outcome |-> FetchUserProfileFound(resp)]
              /\ user' = FetchUserProfileFound(resp).value
              /\ loading' = FALSE
              /\ UNCHANGED lastRequest
    /\ UNCHANGED <<impl, session, customers, sessionCheck, updateCall,
                   mounted, signupCall, logoutCall, handler, launched, outsideAuth>>

\* login: fetchUserProfile from the answer of its insert on, then
\* setUser(profile); finally setLoading(false)
LoginInsertAnswered ==
    /\ loginCall.at = "insert"
    /\ \E done \in InsertCustomer(customers, loginCall.newCustomer) :
         /\ customers' = done.table
         /\ loginCall' = [at |-> "returned", authUser |-> loginCall.authUser,
                          selectError |-> PGRST116, createError |-> done.resp.error,
                          table |-> done.table,
                          outcome |-> FetchUserProfileCreated(done.resp)]
         /\ user' = FetchUserProfileCreated(done.resp).value
    /\ loading' = FALSE
    /\ UNCHANGED <<impl, session, sessionCheck, updateCall, lastRequest,
                   mounted, signupCall, logoutCall, handler, launched, outsideAuth>>

\* What the signup form sends: email, password, name, company?, phone?
SignupForm ==
    [email |-> <<"b", "o", "@", "x">>, name |-> <<"A", "n", "n">>,
     company |-> Undefined, phone |-> Undefined]

\* signup: const customerData = {...}
CustomerData(form, authUser) ==
    [user_id |-> authUser.id,
     name |-> form.name,
     email |-> Str(form.email),
     phone |-> Or(form.phone, Str(<<>>)).chars,
     company_name |-> Or(form.company, Undefined),
     total_orders |-> 0,
     total_spent |-> 0]

\* signup up to its request: setLoading(true); signUp(...)
SignupCall ==
    /\ mounted
    /\ impl = "context"
    /\ sessionCheck.at # "start"
    /\ ~InFlight(signupCall)
    /\ launched < MaxLaunches
    /\ launched' = launched + 1
    /\ loading' = TRUE
    /\ signupCall' = [at |-> "auth", form |-> SignupForm]
    /\ UNCHANGED <<impl, session, customers, user, sessionCheck, updateCall, lastRequest,
                   mounted, loginCall, logoutCall, handler, outsideAuth>>

signup_insertOnError(form, answer) ==
    /\ signupCall' = [at |-> "insert", authError |-> answer.error,
                      customerData |-> CustomerData(form, Account)]
    /\ lastRequest' = InsertCustomerRequest(CustomerData(form, Account))
    /\ UNCHANGED loading

\* signup from the provider's answer up to its insert: if (error) throw
\* error; if (data.user) insert([customerData]) ...
\* catch: throw new Error(...); finally: setLoading(false)
signup(form, answer) ==
    IF answer.error # NoError
    THEN /\ signupCall' = [at |-> "threw", authError |-> answer.error,
                           error |-> Rethrown(answer.error, "Signup failed")]
         /\ loading' = FALSE
         /\ UNCHANGED lastRequest
    ELSE /\ signupCall' = [at |-> "insert", authError |-> NoError,
                           customerData |-> CustomerData(form, answer.user)]
         /\ lastRequest' = InsertCustomerRequest(CustomerData(form, answer.user))
         /\ UNCHANGED loading

\* The account exists at the provider: somebody is signed in to it, has
\* logged in to it, or a profile is linked to it.
AccountExists ==
    \/ session # Null
    \/ loginCall.at \in {"select", "insert", "returned"}
    \/ \E i \in 1..Len(customers) : customers[i].user_id = Account.id

\* The provider creates an identity only for an email without an account.
\* It signs the new identity in at once, or waits for the email to be
\* confirmed: that is its configuration.
SignupAuthAnswered ==
    /\ signupCall.at = "auth"
    /\ \E answer \in AuthAnswers("User already registered") :
         /\ answer.error = NoError => ~AccountExists
         /\ signup(signupCall.form, answer)
         /\ IF answer.error # NoError
            THEN UNCHANGED session
            ELSE session' \in {session, answer.user}
    /\ UNCHANGED <<impl, customers, user, sessionCheck, updateCall,
                   mounted, loginCall, logoutCall, handler, launched, outsideAuth>>

\* signup from the answer of its insert on: if (customerError) log,
\* else setUser(customer); finally setLoading(false)
SignupInsertAnswered ==
    /\ signupCall.at = "insert"
    /\ \E done \in InsertCustomer(customers, signupCall.customerData) :
         /\ customers' = done.table
         /\ signupCall' = [at |-> "returned", customerError |-> done.resp.error,
                           customerData |-> signupCall.customerData]
         /\ IF done.resp.error # NoError
            THEN UNCHANGED user
            ELSE user' = done.resp.rows[1]
    /\ loading' = FALSE
    /\ UNCHANGED <<impl, session, sessionCheck, updateCall, lastRequest,
                   mounted, loginCall, logoutCall, handler, launched, outsideAuth>>

\* logout up to its request: setLoading(true); signOut()
LogoutCall ==
    /\ mounted
    /\ impl = "context"
    /\ sessionCheck.at # "start"
    /\ ~InFlight(logoutCall)
    /\ launched < MaxLaunches
    /\ launched' = launched + 1
    /\ loading' = TRUE
    /\ logoutCall' = [at |-> "signOut"]
    /\ UNCHANGED <<impl, session, customers, user, sessionCheck, updateCall, lastRequest,
                   mounted, loginCall, signupCall, handler, outsideAuth>>

\* logout from the provider's answer on: if (error) throw error;
\* setUser(null); catch: log; finally: setLoading(false)
LogoutAnswered ==
    /\ logoutCall.at = "signOut"
    /\ \E error \in {NoError, "Failed to fetch"} :
         /\ logoutCall' = [at |-> "returned", error |-> error]
         /\ IF error # NoError
            THEN UNCHANGED <<user, session>>
            ELSE user' = Null /\ session' = Null
    /\ loading' = FALSE
    /\ UNCHANGED <<impl, customers, sessionCheck, updateCall, lastRequest,
                   mounted, loginCall, signupCall, handler, launched, outsideAuth>>

\* The notifications the callback is subscribed to.
Events == {"SIGNED_IN", "SIGNED_OUT", "USER_UPDATED"}

\* contexts/AuthContext.tsx: the callback up to its first await, or to its
\* end: if (event === 'SIGNED_IN' && session?.user) fetchUserProfile(...)
\* else if (event === 'SIGNED_OUT') setUser(null); setLoading(false)
HandleInContext(event, sess) ==
    IF event = "SIGNED_IN" /\ sess # Null
    THEN /\ handler' = [at |-> "select", event |-> event, authUser |-> sess]
         /\ lastRequest' = CustomerByUserIdRequest(sess.id)
         /\ UNCHANGED <<user, loading>>
    ELSE /\ handler' = [at |-> "done", event |-> event, mounted |-> mounted]
         /\ user' = IF event = "SIGNED_OUT" THEN Null ELSE user
         /\ loading' = FALSE
         /\ UNCHANGED lastRequest

\* pages/OrderDetail.tsx: the callback up to its first await, or to its end:
\* if (_event === 'SIGNED_OUT') setUser(null)
\* else if (_event === 'USER_UPDATED' || (_event === 'SIGNED_IN' && session?.user))
HandleInPage(event, sess) ==
    IF event # "SIGNED_OUT" /\ (event = "USER_UPDATED" \/ (event = "SIGNED_IN" /\ sess # Null))
    THEN /\ handler' = [at |-> "select", event |-> event, authUser |-> sess]
         /\ lastRequest' = CustomerByUserIdRequest(sess.id)
         /\ UNCHANGED <<user, loading>>
    ELSE /\ handler' = [at |-> "done", event |-> event, mounted |-> mounted]
         /\ user' = IF event = "SIGNED_OUT" THEN Null ELSE user
         /\ UNCHANGED <<loading, lastRequest>>

\* The provider notifies the subscribed callback: of a sign-in or an update
\* of the user while there is a session, of a sign-out (here or in another
\* tab) with the session gone.
Notify ==
    /\ mounted
    /\ sessionCheck.at # "start"
    /\ ~InFlight(handler)
    /\ launched < MaxLaunches
    /\ launched' = launched + 1
    /\ \E event \in Events :
         /\ event # "SIGNED_OUT" => session # Null
         /\ session' = IF event = "SIGNED_OUT" THEN Null ELSE session
         /\ IF impl = "context"
            THEN HandleInContext(event, session')
            ELSE HandleInPage(event, session')
    /\ UNCHANGED <<impl, customers, sessionCheck, updateCall, mounted, loginCall,
                   signupCall, logoutCall, outsideAuth>>

\* contexts/AuthContext.tsx: the callback's fetchUserProfile from the answer
\* of its select on, then setUser(profile); setLoading(false)
HandlerSelectAnswered ==
    /\ impl = "context"
    /\ handler.at = "select"
    /\ \E resp \in CustomerByUserIdQuery(customers, handler.authUser.id) :
         IF resp.error = PGRST116
         THEN /\ handler' = [at |-> "insert", event |-> handler.event,
                             authUser |-> handler.authUser,
                             newCustomer |-> NewCustomer(handler.authUser)]
              /\ lastRequest' = InsertCustomerRequest(NewCustomer(handler.authUser))
              /\ UNCHANGED <<user, loading>>
         ELSE /\ handler' = [at |-> "done", event |-> handler.event, mounted |-> mounted,
                             authUser |-> handler.authUser,
                             selectError |-> resp.error, table |-> customers,
                             outcome |-> FetchUserProfileFound(resp)]
              /\ user' = FetchUserProfileFound(resp).value
              /\ loading' = FALSE
              /\ UNCHANGED lastRequest
    /\ UNCHANGED <<impl, session, customers, sessionCheck, updateCall, mounted,
                   loginCall, signupCall, logoutCall, launched, outsideAuth>>

\* contexts/AuthContext.tsx: the callback's fetchUserProfile from the answer
\* of its insert on, then setUser(profile); setLoading(false)
HandlerInsertAnswered ==
    /\ impl = "context"
    /\ handler.at = "insert"
    /\ \E done \in InsertCustomer(customers, handler.newCustomer) :
         /\ customers' = done.table
         /\ handler' = [at |-> "done", event |-> handler.event, mounted |-> mounted,
                        authUser |-> handler.authUser,
                        selectError |-> PGRST116, createError |-> done.resp.error,
                        table |-> done.table,
                        outcome |-> FetchUserProfileCreated(done.resp)]
         /\ user' = FetchUserProfileCreated(done.resp).value
    /\ loading' = FALSE
    /\ UNCHANGED <<impl, session, sessionCheck, updateCall, lastRequest, mounted,
                   loginCall, signupCall, logoutCall, launched, outsideAuth>>

\* pages/OrderDetail.tsx: the callback from the answer of its select on:
\* if (profile) setUser({ ...profile, id: profile.user_id })
HandlerProfileAnswered ==
    /\ impl = "page"
    /\ handler.at = "select"
    /\ \E resp \in CustomerByUserIdQuery(customers, handler.authUser.id) :
         /\ user' = IF resp.rows # <<>> THEN WithIdentityAsId(resp.rows[1]) ELSE user
         /\ handler' = [at |-> "done", event |-> handler.event, mounted |-> mounted,
                        authUser |-> handler.authUser,
                        selectError |-> resp.error, table |-> customers,
                        outcome |-> FetchUserProfileFound(resp)]
    /\ UNCHANGED <<impl, session, customers, loading, sessionCheck, updateCall,
                   lastRequest, mounted, loginCall, signupCall, logoutCall, launched,
                   outsideAuth>>

\* The provider unmounts: the effect's cleanup, subscription.unsubscribe().
\* Nothing else is cancelled; user and loading stand from here on for what
\* setUser and setLoading are called with.
Unmount ==
    /\ mounted
    /\ mounted' = FALSE
    /\ UNCHANGED <<impl, session, customers, user, loading, sessionCheck, updateCall,
                   lastRequest, loginCall, signupCall, logoutCall, handler, launched,
                   outsideAuth>>

(***************************************************************************)
(* updateProfile                                                           *)
(***************************************************************************)
\* The updates the profile form sends.
ProfileUpdates ==
    {[name |-> <<"Z", "e", "d">>],
     [name |-> <<"Z", "e", "d">>, phone |-> <<"5", "5">>]}

\* new Error('No user logged in') / new Error("No user is logged in")
NoUserError(which) ==
    IF which = "context" THEN "No user logged in" ELSE "No user is logged in"

\* .eq('id', user.id) / .eq('user_id', user.id)
UpdateKey(which) == IF which = "context" THEN "id" ELSE "user_id"

\* from('customers').update(updates).eq(column, user.id).select().single()
UpdateCustomerRequest(which, profile, updates) ==
    [table |-> "customers", op |-> "update", column |-> UpdateKey(which),
     value |-> profile.id, updates |-> updates]

\* The row with the fields of updates set.
Merge(row, updates) ==
    [f \in DOMAIN row |-> IF f \in DOMAIN updates THEN updates[f] ELSE row[f]]

\* What the update can do: the answer, and the table after it.  .single()
\* on a mutation: unless exactly one row is changed the answer is the error
\* and nothing is changed.
UpdateCustomer(table, column, value, updates) ==
    LET hit == {i \in 1..Len(table) : table[i][column] = value}
    IN {[resp |-> Response(QueryFailed, <<>>), table |-> table]} \cup
       (IF Cardinality(hit) = 1
        THEN LET i == CHOOSE k \in hit : TRUE
             IN {[resp |-> Response(NoError, <<Merge(table[i], updates)>>),
                  table |-> [table EXCEPT ![i] = Merge(table[i], updates)]]}
        ELSE {[resp |-> Response(PGRST116, <<>>), table |-> table]})

\* setUser(data) / if (data) setUser({ ...data, id: data.user_id })
ProfileAfterUpdate(which, profile, data) ==
    IF which = "context" THEN data ELSE WithIdentityAsId(data)

\* updateProfile up to its request: if (!user) throw ...; otherwise the
\* request is sent.  The copy in pages/OrderDetail.tsx renders its children,
\* the callers, only when loading is false.
updateProfile_requestFirst(updates) ==
    /\ updateCall' = [at |-> "request", updates |-> updates,
                      request |-> UpdateCustomerRequest(impl, [id |-> 0], updates)]
    /\ lastRequest' = UpdateCustomerRequest(impl, [id |-> 0], updates)

updateProfile(updates) ==
    IF user = Null
    THEN /\ updateCall' = [at |-> "threw", error |-> NoUserError(impl)]
         /\ UNCHANGED lastRequest
    ELSE /\ updateCall' = [at |-> "request", updates |-> updates,
                           request |-> UpdateCustomerRequest(impl, user, updates)]
         /\ lastRequest' = UpdateCustomerRequest(impl, user, updates)

UpdateProfileCall ==
    /\ updateCall.at # "request"
    /\ impl = "page" => loading = FALSE
    /\ \E updates \in ProfileUpdates : updateProfile(updates)
    /\ UNCHANGED <<impl, session, customers, user, loading, sessionCheck, sessionCalls, outsideAuth>>

UpdateProfileAnswered_noThrow ==
    /\ updateCall.at = "request"
    /\ \E done \in UpdateCustomer(customers, updateCall.request.column,
                                  updateCall.request.value, updateCall.request.updates) :
         /\ customers' = done.table
         /\ updateCall' = [at |-> "returned",
                           data |-> IF done.resp.error # NoError THEN Null
                                    ELSE done.resp.rows[1],
                           request |-> updateCall.request,
                           before |-> customers, profile |-> user]
         /\ user' = IF done.resp.error # NoError THEN Null
                    ELSE ProfileAfterUpdate(impl, user, done.resp.rows[1])
    /\ UNCHANGED <<impl, session, loading, sessionCheck, lastRequest, sessionCalls, outsideAuth>>

\* updateProfile from the answer on: if (error) throw error; setUser(...)
UpdateProfileAnswered ==
    /\ updateCall.at = "request"
    /\ \E done \in UpdateCustomer(customers, updateCall.request.column,
                                  updateCall.request.value, updateCall.request.updates) :
         /\ customers' = done.table
         /\ IF done.resp.error # NoError
            THEN /\ updateCall' = [at |-> "threw", error |-> done.resp.error]
                 /\ UNCHANGED user
            ELSE /\ updateCall' = [at |-> "returned", data |-> done.resp.rows[1],
                                   request |-> updateCall.request,
                                   before |-> customers, profile |-> user]
                 /\ user' = ProfileAfterUpdate(impl, user, done.resp.rows[1])
    /\ UNCHANGED <<impl, session, loading, sessionCheck, lastRequest, sessionCalls, outsideAuth>>

(***************************************************************************)
(* The status-log specification: the back office appends events, and the   *)
(* helpers are called against the log.                                     *)
(***************************************************************************)
\* An event is written to the log (by the back office; the portal only reads).
AppendStatusEvent ==
    \E e \in StatusEvents :
        /\ Cardinality(order_status_log) < MaxEvents
        /\ e \notin order_status_log
        /\ order_status_log' = order_status_log \cup {e}
        /\ helperCall' = NoCall
        /\ UNCHANGED outsideStatus

CallGetOrderStatus ==
    \E orderId \in OrderIds :
        \E resp \in StatusQuery(order_status_log, orderId) :
            /\ helperCall' = [op |-> "getOrderStatus", orderId |-> orderId,
                              error |-> resp.error,
                              outcome |-> getOrderStatus(resp)]
            /\ UNCHANGED <<order_status_log, outsideStatus>>

CallGetOrderStatusHistory ==
    \E orderId \in OrderIds :
        \E resp \in HistoryQuery(order_status_log, orderId) :
            /\ helperCall' = [op |-> "getOrderStatusHistory", orderId |-> orderId,
                              error |-> resp.error,
                              outcome |-> getOrderStatusHistory(resp)]
            /\ UNCHANGED <<order_status_log, outsideStatus>>

StatusInit ==
    /\ AuthProviderUnused
    /\ progressCall = NoCall
    /\ order_status_log = {}
    /\ helperCall = NoCall
    /\ user = Null
    /\ InvoicesMounted
    /\ InvoiceDetailMounted(PaymentId(1))
    /\ pageCall = NoCall
    /\ payments = <<>>
    /\ orders = <<>>
    /\ DashboardMounted
    /\ OrderDetailMounted(<<"1">>)

StatusNext ==
    \/ AppendStatusEvent
    \/ CallGetOrderStatus
    \/ CallGetOrderStatusHistory

SpecStatus == StatusInit /\ [][StatusNext]_vars

(***************************************************************************)
(* The Invoices page specification.                                        *)
(***************************************************************************)
InvoicesInit ==
    /\ AuthProviderUnused
    /\ progressCall = NoCall
    /\ user \in {Null, PageProfile}
    /\ payments = <<>>
    /\ InvoicesMounted
    /\ InvoiceDetailMounted(PaymentId(1))
    /\ pageCall = NoCall
    /\ order_status_log = {}
    /\ helperCall = NoCall
    /\ orders = <<>>
    /\ DashboardMounted
    /\ OrderDetailMounted(<<"1">>)

InvoicesNext ==
    \/ InsertPayment
    \/ FetchInvoicesStart
    \/ FetchInvoicesDone

SpecInvoices == InvoicesInit /\ [][InvoicesNext]_vars

(***************************************************************************)
(* The Dashboard and Order Detail specification.                           *)
(***************************************************************************)
\* The payments the Dashboard is checked against.
DashboardPayments ==
    {<<>>,
     <<PaymentRow(1, "c1", <<100, 100>>, "Paid"), PaymentRow(2, "c2", <<50, 20>>, "Paid"),
       PaymentRow(3, "c1", <<30, 0>>, "Due")>>}

OrdersInit ==
    /\ AuthProviderUnused
    /\ progressCall = NoCall
    /\ user \in {Null, PageProfile}
    /\ orders = <<>>
    /\ order_status_log = {}
    /\ payments = <<PaymentRow(1, "c1", <<100, 100>>, "Paid"),
                    PaymentRow(2, "c2", <<50, 20>>, "Paid"),
                    PaymentRow(3, "c1", <<30, 0>>, "Due")>>
    /\ DashboardMounted
    /\ \E orderId \in RouteParams : OrderDetailMounted(orderId)
    /\ InvoicesMounted
    /\ InvoiceDetailMounted(PaymentId(1))
    /\ pageCall = NoCall
    /\ helperCall = NoCall

OrdersNext ==
    \/ InsertOrder
    \/ DashboardMount
    \/ DashboardEffect
    \/ FetchDashboardDataDone
    \/ OrderDetailMount
    \/ OrderDetailEffect
    \/ FetchOrderAnswered
    \/ FetchOrderHistoryReturned

SpecOrders == OrdersInit /\ [][OrdersNext]_vars

(***************************************************************************)
(* The four pages side by side, over tables that stay as they are.         *)
(***************************************************************************)
\* The orders and their status log the pages are checked against.
PagesOrders ==
    {[orders |-> <<>>, log |-> {}],
     [orders |-> <<OrderRow(1, <<"c1", FALSE, Today>>), OrderRow(2, <<"c2", FALSE, Today>>)>>,
      log |-> {[order_id |-> 1, status |-> "Delivered", updated_at |-> 1],
               [order_id |-> 2, status |-> "Printing", updated_at |-> 1]}],
     [orders |-> <<OrderRow(1, <<"c1", TRUE, Today>>), OrderRow(2, <<"c1", FALSE, Today>>)>>,
      log |-> {}]}

PagesInit ==
    /\ AuthProviderUnused
    /\ progressCall = NoCall
    /\ user \in {Null, PageProfile}
    /\ \E t \in PagesOrders : orders = t.orders /\ order_status_log = t.log
    /\ payments \in DashboardPayments
    /\ DashboardMounted
    /\ \E orderId \in RouteParams : OrderDetailMounted(orderId)
    /\ InvoicesMounted
    /\ \E id \in InvoiceParams : InvoiceDetailMounted(id)
    /\ pageCall = NoCall
    /\ helperCall = NoCall

PagesNext ==
    \/ FetchInvoicesStart
    \/ FetchInvoicesDone
    \/ InvoiceDetailMount
    \/ InvoiceDetailEffect
    \/ FetchInvoiceDone
    \/ DashboardMount
    \/ DashboardEffect
    \/ FetchDashboardDataDone
    \/ OrderDetailMount
    \/ OrderDetailEffect
    \/ FetchOrderAnswered
    \/ FetchOrderHistoryReturned

SpecPages == PagesInit /\ [][PagesNext]_vars

(***************************************************************************)
(* The invoice list under its search box and status filter.                *)
(***************************************************************************)
\* The payments the list is checked against.
ListPayments ==
    DashboardPayments \cup
      {<<PaymentRow(1, "c1", <<100, 100>>, "Paid"), PaymentRow(2, "c1", <<50, 20>>, "Partial"),
         PaymentRow(3, "c1", <<30, 0>>, "Due")>>}

ListInit ==
    /\ AuthProviderUnused
    /\ progressCall = NoCall
    /\ user = PageProfile
    /\ payments \in ListPayments
    /\ InvoicesMounted
    /\ InvoiceDetailMounted(PaymentId(1))
    /\ pageCall = NoCall
    /\ order_status_log = {}
    /\ helperCall = NoCall
    /\ orders = <<>>
    /\ DashboardMounted
    /\ OrderDetailMounted(<<"1">>)

ListNext ==
    \/ FetchInvoicesStart
    \/ FetchInvoicesDone
    \/ SetSearchQuery
    \/ SetStatusFilter

SpecList == ListInit /\ [][ListNext]_vars

(***************************************************************************)
(* The session manager specification.                                      *)
(***************************************************************************)
AuthInit ==
    /\ impl \in {"context", "page"}
    /\ session \in {Null} \cup Identities
    /\ customers \in InitialCustomers
    /\ AuthProviderMounted
    /\ progressCall = NoCall
    /\ order_status_log = {}
    /\ helperCall = NoCall
    /\ payments = <<>>
    /\ orders = <<>>
    /\ InvoicesMounted
    /\ InvoiceDetailMounted(PaymentId(1))
    /\ pageCall = NoCall
    /\ DashboardMounted
    /\ OrderDetailMounted(<<"1">>)

AuthNext ==
    \/ SessionCheckStart
    \/ FetchUserProfileSelectAnswered
    \/ FetchUserProfileInsertAnswered
    \/ CheckSessionAnswered
    \/ UpdateProfileCall
    \/ UpdateProfileAnswered

SpecAuth == AuthInit /\ [][AuthNext]_vars

(***************************************************************************)
(* The session manager with its calls and notifications, for one account.  *)
(***************************************************************************)
SessionInit ==
    /\ impl \in {"context", "page"}
    /\ session \in {Null, Account}
    /\ customers \in InitialCustomers
    /\ AuthProviderMounted
    /\ progressCall = NoCall
    /\ order_status_log = {}
    /\ helperCall = NoCall
    /\ payments = <<>>
    /\ orders = <<>>
    /\ InvoicesMounted
    /\ InvoiceDetailMounted(PaymentId(1))
    /\ pageCall = NoCall
    /\ DashboardMounted
    /\ OrderDetailMounted(<<"1">>)

SessionNext ==
    \/ SessionCheckStart
    \/ FetchUserProfileSelectAnswered
    \/ FetchUserProfileInsertAnswered
    \/ CheckSessionAnswered
    \/ LoginCall
    \/ LoginAuthAnswered
    \/ LoginSelectAnswered
    \/ LoginInsertAnswered
    \/ SignupCall
    \/ SignupAuthAnswered
    \/ SignupInsertAnswered
    \/ LogoutCall
    \/ LogoutAnswered
    \/ Notify
    \/ HandlerSelectAnswered
    \/ HandlerInsertAnswered
    \/ HandlerProfileAnswered
    \/ Unmount

SpecSession == SessionInit /\ [][SessionNext]_vars

\* The effect that starts the session check runs once the provider is
\* mounted.  Nothing makes the backend or the identity provider answer, and
\* nothing makes the user call or the provider notify.
SpecSessionLive == SessionInit /\ [][SessionNext]_vars /\ WF_vars(SessionCheckStart)

(***************************************************************************)
(* The progress indicator specification: isStatusCompleted over the labels *)
(* it can be called with.                                                  *)
(***************************************************************************)
ProgressInit == StatusInit

ProgressNext == CallIsStatusCompleted

SpecProgress == ProgressInit /\ [][ProgressNext]_vars

(***************************************************************************)
(* Claims about the status helpers (checked under SpecStatus).             *)
(***************************************************************************)
CalledOrderEvents == {e \in order_status_log : e.order_id = helperCall.orderId}

DistinctTimes(evs) ==
    \A a, b \in evs : a # b => a.updated_at # b.updated_at

LatestOf(evs) == CHOOSE e \in evs : \A o \in evs : o.updated_at <= e.updated_at

\* C1: for an order whose status log holds no event, getOrderStatus returns
\* "Pending".
C1_NoEventsPending ==
    (helperCall.op = "getOrderStatus" /\ CalledOrderEvents = {})
        => helperCall.outcome = Returned("Pending")

\* The request went through, .single() found no row (PGRST116), and the log
\* holds events of the other order only.
C1_Witness ==
    /\ helperCall.op = "getOrderStatus"
    /\ CalledOrderEvents = {}
    /\ order_status_log # {}
    /\ helperCall.error = PGRST116

\* C2: for an order whose events lie at pairwise different times
\* t1 < ... < tn, whatever their statuses and whatever events of other orders
\* the log holds, getOrderStatus returns the status of the event at tn.  The
\* request is one that was answered: the answer to a failed request is C4's.
C2_LatestStatus ==
    (/\ helperCall.op = "getOrderStatus"
     /\ helperCall.error # QueryFailed
     /\ CalledOrderEvents # {}
     /\ DistinctTimes(CalledOrderEvents))
        => helperCall.outcome = Returned(LatestOf(CalledOrderEvents).status)

\* Two events of the order, the later one of a status that precedes the
\* earlier one's in the pipeline, and an event of the other order later still.
C2_Witness ==
    /\ helperCall.op = "getOrderStatus"
    /\ helperCall.error = NoError
    /\ Cardinality(CalledOrderEvents) = 2
    /\ DistinctTimes(CalledOrderEvents)
    /\ LatestOf(CalledOrderEvents).status = "Design"
    /\ \E e \in CalledOrderEvents : e.status = "Delivered"
    /\ \E o \in order_status_log :
         /\ o.order_id # helperCall.orderId
         /\ o.updated_at > LatestOf(CalledOrderEvents).updated_at
         /\ o.status = "Printing"

\* C3: getOrderStatusHistory(orderId) returns exactly the events of the log
\* whose order_id is orderId, each once, oldest first by updated_at (for a
\* request that was answered: the answer to a failed request is C5's).
C3_HistoryExactAscending ==
    (helperCall.op = "getOrderStatusHistory" /\ helperCall.error = NoError)
        => /\ helperCall.outcome.kind = "returned"
           /\ LET h == helperCall.outcome.value
              IN /\ {h[i] : i \in 1..Len(h)} = CalledOrderEvents
                 /\ Len(h) = Cardinality(CalledOrderEvents)
                 /\ \A i, j \in 1..Len(h) :
                        i < j => h[i].updated_at <= h[j].updated_at

C3_Witness ==
    /\ helperCall.op = "getOrderStatusHistory"
    /\ helperCall.error = NoError
    /\ Len(helperCall.outcome.value) = 2
    /\ helperCall.outcome.value[1].updated_at < helperCall.outcome.value[2].updated_at
    /\ \E o \in order_status_log : o.order_id # helperCall.orderId

\* C4: getOrderStatus never throws; when its request fails it returns
\* "Pending".
C4_StatusNeverThrows ==
    helperCall.op = "getOrderStatus"
        => /\ helperCall.outcome.kind = "returned"
           /\ helperCall.error # NoError => helperCall.outcome.value = "Pending"

\* The request failed while the order's latest event is Delivered.
C4_Witness ==
    /\ helperCall.op = "getOrderStatus"
    /\ helperCall.error = QueryFailed
    /\ CalledOrderEvents # {}
    /\ DistinctTimes(CalledOrderEvents)
    /\ LatestOf(CalledOrderEvents).status = "Delivered"

\* C5: getOrderStatusHistory never throws; when its request fails it returns
\* the empty sequence.
C5_HistoryNeverThrows ==
    helperCall.op = "getOrderStatusHistory"
        => /\ helperCall.outcome.kind = "returned"
           /\ helperCall.error # NoError => helperCall.outcome.value = <<>>

C5_Witness ==
    /\ helperCall.op = "getOrderStatusHistory"
    /\ helperCall.error = QueryFailed
    /\ Cardinality(CalledOrderEvents) = 2

(***************************************************************************)
(* Claims about the Invoices page (checked under SpecInvoices).            *)
(***************************************************************************)
\* The sum of F over the rows of invs at the indexes in I.
RECURSIVE SumOver(_, _)
SumOver(f, I) ==
    IF I = {} THEN 0
    ELSE LET i == CHOOSE k \in I : TRUE
         IN f[i] + SumOver(f, I \ {i})

SumAt(invs, I, F(_)) == SumOver([i \in 1..Len(invs) |-> F(invs[i])], I)

InvoiceA == <<<<100, 100>>, "Paid">>
InvoiceB == <<<<50, 20>>, "Partial">>
InvoiceC == <<<<30, 0>>, "Due">>

\* The invoices on the page are A, B and C, in some order.
InvoicesAreABC ==
    /\ Len(invoices) = 3
    /\ \A x \in {InvoiceA, InvoiceB, InvoiceC} :
          \E i \in 1..3 :
              /\ invoices[i].total_amount = x[1][1]
              /\ invoices[i].amount_paid = x[1][2]
              /\ invoices[i].status = x[2]

\* C7: for every list of fetched invoices, total is the sum of total_amount
\* over all of them, paid the sum of amount_paid over those of status Paid,
\* pending the sum of total_amount - amount_paid over those of status Due or
\* Partial; for A(100,100,Paid), B(50,20,Partial), C(30,0,Due) the totals are
\* {total: 180, paid: 100, pending: 60}.
C7_InvoiceTotals ==
    LET I == 1..Len(invoices)
        t == totals(invoices)
    IN /\ t.total = SumAt(invoices, I, LAMBDA r : r.total_amount)
       /\ t.paid = SumAt(invoices, {i \in I : invoices[i].status = "Paid"},
                         LAMBDA r : r.amount_paid)
       /\ t.pending = SumAt(invoices, {i \in I : invoices[i].status \in {"Due", "Partial"}},
                            LAMBDA r : r.total_amount - r.amount_paid)
       /\ InvoicesAreABC => t = [total |-> 180, paid |-> 100, pending |-> 60]

C7_Witness ==
    /\ invPc = "idle"
    /\ invLoading = FALSE
    /\ InvoicesAreABC

(***************************************************************************)
(* Claims about the Dashboard and Order Detail (checked under SpecOrders). *)
(***************************************************************************)
\* The rows of orders that are soft-deleted.
DeletedOrders == {orders[i] : i \in {j \in 1..Len(orders) : orders[j].is_deleted}}

\* Of the first k rows of orders, those of the profile's customer that are
\* not soft-deleted.
LiveOwnOrders(k) ==
    IF user = Null THEN {}
    ELSE {i \in 1..k : orders[i].customer_id = user.id /\ ~orders[i].is_deleted}

\* C6: an order with is_deleted = true is in no customer-facing order result:
\* it is not in the list of orders the Dashboard fetched, nor in its recent
\* orders, and this-month spend and the pending count are taken over
\* orders that are not deleted (those of the table as the fetch found it); Order Detail on the
\* route of its id stays in the 'not found' state (order = null).
C6_DeletedOrdersHidden ==
    /\ \A i \in 1..Len(dashOrders) : dashOrders[i] \notin DeletedOrders
    /\ \A i \in 1..Len(recentOrders) : recentOrders[i].order \notin DeletedOrders
    /\ \E k \in 0..Len(orders) :
          /\ dashStats.thisMonth =
                SumAt(orders, {i \in LiveOwnOrders(k) : orders[i].date = Today},
                      LAMBDA o : o.total_amount)
          /\ dashStats.pendingOrders <= Cardinality(LiveOwnOrders(k))
    /\ odOrder # Null => odOrder.data \notin DeletedOrders
    /\ (\E d \in DeletedOrders : d.id = ParseInt(odParam)) => odOrder = Null

\* The Dashboard has fetched the orders of a customer who has a deleted order
\* of this month older than a fetched one, and Order Detail has fetched on
\* the route of that deleted order.
C6_Witness ==
    /\ dashPc = "idle"
    /\ dashLoading = FALSE
    /\ Len(dashOrders) > 0
    /\ \E d \in DeletedOrders :
          /\ d.customer_id = user.id
          /\ d.date = Today
          /\ d.id < dashOrders[1].id
          /\ dashStats.thisMonth = 40
          /\ d.id = ParseInt(odParam)
    /\ odPc.at = "idle"
    /\ odLoading = FALSE
    /\ odOrder = Null

(***************************************************************************)
(* Claims about the session manager.                                       *)
(***************************************************************************)
\* The characters of an email before its first "@" (all of them when it
\* has none).
LocalPartOf(chars) ==
    LET n == CHOOSE k \in 0..Len(chars) :
                 /\ \A i \in 1..k : chars[i] # "@"
                 /\ k < Len(chars) => chars[k + 1] = "@"
    IN SubSeq(chars, 1, n)

Present(x) == x.defined /\ Len(x.chars) > 0

\* The name a created profile is to carry.
ExpectedName(identity) ==
    IF Present(identity.user_metadata.name) THEN identity.user_metadata.name.chars
    ELSE IF identity.email.defined /\ Len(LocalPartOf(identity.email.chars)) > 0
         THEN LocalPartOf(identity.email.chars)
         ELSE <<"C", "u", "s", "t", "o", "m", "e", "r">>

HasProfile(table, identity) == \E i \in 1..Len(table) : table[i].user_id = identity.id

IsProfileFor(row, identity) ==
    /\ row.user_id = identity.id
    /\ row.total_orders = 0
    /\ row.total_spent = 0
    /\ row.name = ExpectedName(identity)

\* C8: when fetchUserProfile's select is answered with the 'no row' error,
\* it sends an insert of a profile linked to the identity, with total_orders
\* 0, total_spent 0 and the name taken from the metadata name if it is a
\* non-empty text, otherwise from the non-empty local part of the email,
\* otherwise "Customer"; and when that insert is answered without an error
\* the row is in the customers table and is what fetchUserProfile returns.
C8_ProfileCreatedOnNoRow ==
    /\ (sessionCheck.at = "insert") =>
          /\ ~HasProfile(customers, session)
          /\ lastRequest.table = "customers"
          /\ lastRequest.op = "insert"
          /\ IsProfileFor(lastRequest.row, session)
    /\ (/\ impl = "context"
        /\ sessionCheck.at = "done"
        /\ "selectError" \in DOMAIN sessionCheck
        /\ sessionCheck.selectError = PGRST116) =>
          /\ "createError" \in DOMAIN sessionCheck
          /\ sessionCheck.createError = NoError =>
                /\ sessionCheck.outcome.kind = "returned"
                /\ IsProfileFor(sessionCheck.outcome.value, session)
                /\ sessionCheck.after =
                      Append(sessionCheck.before, sessionCheck.outcome.value)

\* A profile was created for an identity without a metadata name, under the
\* local part of its email.
C8_Witness ==
    /\ sessionCheck.at = "done"
    /\ "createError" \in DOMAIN sessionCheck
    /\ sessionCheck.createError = NoError
    /\ ~Present(session.user_metadata.name)
    /\ sessionCheck.outcome.value.name = <<"b", "o">>
    /\ customers = Append(sessionCheck.before, sessionCheck.outcome.value)

NoUserMessages == {"No user logged in", "No user is logged in"}

\* C9: a call of updateProfile while user is null throws the 'no user
\* logged in' error, sends no request, and leaves user and the customers
\* table as they are.
C9_UpdateWithoutUserFails ==
    [][(UpdateProfileCall /\ user = Null) =>
          /\ updateCall'.at = "threw"
          /\ updateCall'.error \in NoUserMessages
          /\ lastRequest' = lastRequest
          /\ customers' = customers
          /\ user' = user]_vars

\* updateProfile was called with user null, after the session check.
C9_Witness ==
    /\ user = Null
    /\ sessionCheck.at = "done"
    /\ updateCall.at = "threw"
    /\ updateCall.error \in NoUserMessages

\* The rows of table whose user_id is the identity's id.
RowsOf(table, identity) == {i \in 1..Len(table) : table[i].user_id = identity.id}

\* C10: when updateProfile succeeds for a logged-in user, the updates were
\* applied to the customers row whose user_id is the identity's id, and
\* user is exactly the row the server returned.
C10_UpdateStoresReturnedRow ==
    (updateCall.at = "returned") =>
        /\ \E i \in RowsOf(updateCall.before, session) :
              /\ updateCall.data = Merge(updateCall.before[i], updateCall.request.updates)
              /\ customers = [updateCall.before EXCEPT ![i] = updateCall.data]
        /\ user = updateCall.data

\* updateProfile succeeded and user is not the row the server returned.
C10_Witness ==
    /\ updateCall.at = "returned"
    /\ \E i \in RowsOf(updateCall.before, session) :
          customers = [updateCall.before EXCEPT ![i] = updateCall.data]
    /\ user # updateCall.data
    /\ user = [updateCall.data EXCEPT !.id = updateCall.data.user_id]

(***************************************************************************)
(* Claims about the progress indicator.                                    *)
(***************************************************************************)
\* The place of a status in the fixed order Pending, Design, Printing,
\* Delivered.
StageOf(status) ==
    CASE status = "Pending" -> 1
      [] status = "Design" -> 2
      [] status = "Printing" -> 3
      [] status = "Delivered" -> 4

Stages == {"Pending", "Design", "Printing", "Delivered"}

\* C12: for status and current both of the fixed order, isStatusCompleted
\* is true exactly when status stands at or before current in that order;
\* with current Printing: Pending, Design and Printing are reached and
\* Delivered is not.
C12_StatusCompleted ==
    (/\ progressCall.op = "isStatusCompleted"
     /\ progressCall.status \in Stages
     /\ progressCall.currentStatus \in Stages) =>
        /\ progressCall.outcome.kind = "returned"
        /\ progressCall.outcome.value =
              (StageOf(progressCall.status) <= StageOf(progressCall.currentStatus))
        /\ progressCall.currentStatus = "Printing" =>
              (progressCall.outcome.value =
                  (progressCall.status \in {"Pending", "Design", "Printing"}))

\* isStatusCompleted('Printing', 'Printing') was called and answered true.
C12_Witness ==
    /\ progressCall.op = "isStatusCompleted"
    /\ progressCall.status = "Printing"
    /\ progressCall.currentStatus = "Printing"
    /\ progressCall.outcome.value = TRUE

(***************************************************************************)
(* Claims about login, signup, logout and the notifications.               *)
(***************************************************************************)
\* C13: when the identity provider rejects the credentials, login throws
\* the provider's error to its caller, sends no profile request, leaves
\* user and the customers table as they are, and ends with loading false.
C13_LoginRejected ==
    [][(/\ loginCall.at = "auth"
        /\ loginCall' # loginCall
        /\ loginCall'.authError # NoError) =>
          /\ loginCall'.at = "threw"
          /\ loginCall'.error = loginCall'.authError
          /\ user' = user
          /\ loading' = FALSE
          /\ lastRequest' = lastRequest
          /\ customers' = customers]_vars

\* A login was rejected while a profile was in place.
C13_Witness ==
    /\ loginCall.at = "threw"
    /\ loginCall.error = "Invalid login credentials"
    /\ user # Null
    /\ loading = FALSE

\* The rows of table linked to the identity.
ProfilesOf(table, identity) ==
    {table[i] : i \in {k \in 1..Len(table) : table[k].user_id = identity.id}}

\* What a profile resolution for the identity may end in against the table
\* it leaves: a profile of the identity, the one it found or created, or
\* null when its select or its insert failed.
IsResolution(call) ==
    /\ call.outcome.kind = "returned"
    /\ IF call.outcome.value = Null
       THEN \/ call.selectError \notin {NoError, PGRST116}
            \/ /\ call.selectError = PGRST116
               /\ call.createError # NoError
       ELSE /\ call.outcome.value \in ProfilesOf(call.table, call.authUser)
            /\ call.selectError = PGRST116 => call.createError = NoError

\* C14: when the identity provider accepts the credentials, login asks for
\* the profile of the identity it was given; when login returns, user is
\* what that resolution ended in (the profile found or created, or null when
\* it failed) and loading is false.
C14_LoginResolvesProfile ==
    [][/\ (/\ loginCall.at = "auth"
           /\ loginCall' # loginCall
           /\ loginCall'.authError = NoError) =>
             /\ loginCall'.at = "select"
             /\ loginCall'.authUser = session'
             /\ lastRequest' = CustomerByUserIdRequest(session'.id)
       /\ (/\ loginCall.at \in {"select", "insert"}
           /\ loginCall'.at = "returned") =>
             /\ loginCall'.authUser = loginCall.authUser
             /\ loginCall'.table = customers'
             /\ IsResolution(loginCall')
             /\ user' = loginCall'.outcome.value
             /\ loading' = FALSE]_vars

\* A login returned with the profile it created.
C14_Witness ==
    /\ loginCall.at = "returned"
    /\ loginCall.selectError = PGRST116
    /\ loginCall.createError = NoError
    /\ user = loginCall.outcome.value
    /\ user # Null
    /\ loading = FALSE

\* C15: when identity creation fails signup throws to its caller and sends
\* no insert; when it succeeds signup sends the insert of a profile of the
\* new identity with total_orders 0 and total_spent 0; when that insert
\* fails signup still returns normally, with user as it was.
C15_Signup ==
    [][/\ (/\ signupCall.at = "auth"
           /\ signupCall' # signupCall
           /\ signupCall'.authError # NoError) =>
             /\ signupCall'.at = "threw"
             /\ signupCall'.error = signupCall'.authError
             /\ lastRequest' = lastRequest
             /\ customers' = customers
       /\ (/\ signupCall.at = "auth"
           /\ signupCall' # signupCall
           /\ signupCall'.authError = NoError) =>
             /\ signupCall'.at = "insert"
             /\ lastRequest' = InsertCustomerRequest(signupCall'.customerData)
             /\ signupCall'.customerData.user_id = Account.id
             /\ signupCall'.customerData.total_orders = 0
             /\ signupCall'.customerData.total_spent = 0
             /\ customers' = customers
       /\ (/\ signupCall.at = "insert"
           /\ signupCall' # signupCall) =>
             /\ signupCall'.at = "returned"
             /\ loading' = FALSE
             /\ IF signupCall'.customerError # NoError
                THEN user' = user /\ customers' = customers
                ELSE /\ Len(customers') = Len(customers) + 1
                     /\ customers'[Len(customers')].user_id = Account.id
                     /\ customers'[Len(customers')].total_orders = 0
                     /\ customers'[Len(customers')].total_spent = 0]_vars

\* A signup returned normally although its insert failed, user still null.
C15_Witness ==
    /\ signupCall.at = "returned"
    /\ signupCall.customerError # NoError
    /\ user = Null
    /\ loading = FALSE

\* C16: when logout completes, user is null, whatever signOut answered.
C16_LogoutClearsUser ==
    [][(logoutCall.at = "signOut" /\ logoutCall'.at = "returned") => user' = Null]_vars

\* A logout completed after signOut answered an error, the profile still in
\* place.
C16_Witness ==
    /\ logoutCall.at = "returned"
    /\ logoutCall.error # NoError
    /\ user # Null
    /\ loading = FALSE

\* The run waits for the answer to its lookup.
Unanswered(call) == call.at = "select"

Recovered == user = Null /\ loading = FALSE

\* C11: a profile lookup of the session check, of login or of the callback
\* that is never answered still leaves the manager, eventually, with user
\* null and loading false.
C11_LookupTimesOut ==
    /\ Unanswered(sessionCheck) ~> (~Unanswered(sessionCheck) \/ Recovered)
    /\ Unanswered(loginCall) ~> (~Unanswered(loginCall) \/ Recovered)
    /\ Unanswered(handler) ~> (~Unanswered(handler) \/ Recovered)

\* The session check waits for its lookup, loading still true.
C11_Witness ==
    /\ Unanswered(sessionCheck)
    /\ loading = TRUE
    /\ user = Null

\* C17: once the provider is unmounted and its subscription unsubscribed,
\* neither user nor loading is set any more.
C17_NoUpdateAfterTeardown ==
    [][~mounted => (user' = user /\ loading' = loading)]_vars

\* The callback, its lookup answered after the teardown, has set user.
C17_Witness ==
    /\ ~mounted
    /\ handler.at = "done"
    /\ handler.mounted = FALSE
    /\ "outcome" \in DOMAIN handler
    /\ handler.outcome.value # Null
    /\ user # Null
    /\ \A f \in DOMAIN user \ {"id"} : user[f] = handler.outcome.value[f]

\* user holds the fields of the row, whatever its id.
HoldsProfile(u, row) ==
    /\ u # Null
    /\ \A f \in DOMAIN row \ {"id"} : u[f] = row[f]

\* C18: when the callback has dealt with a notification, user is in line
\* with it: null after SIGNED_OUT; after SIGNED_IN and after USER_UPDATED
\* the profile of the session's identity was read and, if there is one,
\* user holds it.
C18_NotificationsKeepProfile ==
    [][(handler' # handler /\ handler'.at = "done") =>
          IF handler'.event = "SIGNED_OUT"
          THEN user' = Null
          ELSE /\ "outcome" \in DOMAIN handler'
               /\ handler'.outcome.value # Null =>
                     /\ handler'.outcome.value \in ProfilesOf(handler'.table, handler'.authUser)
                     /\ HoldsProfile(user', handler'.outcome.value)]_vars

\* contexts/AuthContext.tsx has dealt with USER_UPDATED: the identity has a
\* profile and user is null.
C18_Witness ==
    /\ impl = "context"
    /\ handler.at = "done"
    /\ handler.event = "USER_UPDATED"
    /\ session # Null
    /\ HasProfile(customers, session)
    /\ user = Null

Ended(call) == call.at \in {"done", "returned"} /\ "outcome" \in DOMAIN call

\* A step of a run of fetchUserProfile, from call to next.
OnlyOnNoRow(call, next) ==
    /\ (call.at = "select" /\ next.at = "insert") =>
          ~HasProfile(customers, call.authUser)
    /\ (call.at = "select" /\ Ended(next)) =>
          /\ next.outcome.kind = "returned"
          /\ next.selectError # NoError =>
                /\ next.outcome.value = Null
                /\ customers' = customers
                /\ lastRequest' = lastRequest
    /\ (call.at = "insert" /\ next # call) =>
          /\ Ended(next)
          /\ next.outcome.kind = "returned"

\* C19: fetchUserProfile (of the session check, of login, of the callback)
\* sends its insert only when the identity has no customers row; a lookup
\* that fails in any other way ends in null with nothing inserted; and no
\* run ends in an error.
C19_CreatesOnlyOnNoRow ==
    [][impl = "context" =>
          /\ OnlyOnNoRow(sessionCheck, sessionCheck')
          /\ OnlyOnNoRow(loginCall, loginCall')
          /\ OnlyOnNoRow(handler, handler')]_vars

\* A run of fetchUserProfile sent an insert for an identity that has two
\* profiles.
C19_Witness ==
    /\ impl = "context"
    /\ \E call \in {sessionCheck, loginCall, handler} :
          /\ call.at = "insert"
          /\ Cardinality(RowsOf(customers, call.authUser)) >= 2

\* C20: the customers table never holds two rows linked to one identity.
C20_OneProfilePerIdentity ==
    Cardinality(RowsOf(customers, Account)) <= 1

\* login and the callback each created a profile of the identity.
C20_Witness ==
    /\ loginCall.at = "returned"
    /\ "createError" \in DOMAIN loginCall
    /\ loginCall.createError = NoError
    /\ handler.at = "done"
    /\ "createError" \in DOMAIN handler
    /\ handler.createError = NoError
    /\ handler.outcome.value # loginCall.outcome.value
    /\ Cardinality(RowsOf(customers, Account)) = 2

(***************************************************************************)
(* The pages' fetch functions.                                             *)
(***************************************************************************)
\* What a page's fetch function does from one state to the next: it is
\* dispatched (its first request is out), it ends, or it is in flight.
Dispatched(page) ==
    CASE page = "Invoices" -> invPc # "fetching" /\ invPc' = "fetching"
      [] page = "InvoiceDetail" -> invoicePc # "fetching" /\ invoicePc' = "fetching"
      [] page = "Dashboard" -> dashPc # "fetching" /\ dashPc' = "fetching"
      [] page = "OrderDetail" -> odPc.at = "mounted" /\ odPc'.at = "order"

Completed(page) ==
    CASE page = "Invoices" -> invPc = "fetching" /\ invPc' = "idle"
      [] page = "InvoiceDetail" -> invoicePc = "fetching" /\ invoicePc' = "idle"
      [] page = "Dashboard" -> dashPc = "fetching" /\ dashPc' = "idle"
      [] page = "OrderDetail" -> odPc.at \in {"order", "history"} /\ odPc'.at = "idle"

InFlightFetch(page) ==
    CASE page = "Invoices" -> invPc = "fetching"
      [] page = "InvoiceDetail" -> invoicePc = "fetching"
      [] page = "Dashboard" -> dashPc = "fetching"
      [] page = "OrderDetail" -> odPc.at \in {"order", "history"}

LoadingOf(page) ==
    CASE page = "Invoices" -> invLoading
      [] page = "InvoiceDetail" -> invoiceLoading
      [] page = "Dashboard" -> dashLoading
      [] page = "OrderDetail" -> odLoading

Pages == {"Invoices", "InvoiceDetail", "Dashboard", "OrderDetail"}

\* C21: every page fetch that is dispatched has set loading = true by the
\* time its first request is out, and the step on which its requests have
\* returned and it ends leaves loading = false, whether the requests
\* succeeded or one of them failed.
C21_LoadingBracketsFetch ==
    [][\A page \in Pages :
          /\ Dispatched(page) => LoadingOf(page)'
          /\ InFlightFetch(page)' => LoadingOf(page)'
          /\ Completed(page) =>
                /\ ~LoadingOf(page)'
                /\ pageCall'.error \in {NoError, QueryFailed, PGRST116}]_vars

\* All four fetches have ended and loading is false on every page; the one
\* that ended last had a failing request.
C21_Witness ==
    /\ \A page \in Pages : ~InFlightFetch(page) /\ ~LoadingOf(page)
    /\ pageCall # NoCall
    /\ pageCall.error # NoError

(***************************************************************************)
(* The Dashboard's pending count.                                          *)
(***************************************************************************)
\* The status the log holds for an order: that of its events with the
\* greatest updated_at, Pending when it has none.
LoggedStatuses(log, orderId) ==
    LET events == {e \in log : e.order_id = orderId}
    IN IF events = {} THEN {"Pending"}
       ELSE {e.status : e \in {x \in events :
                                  \A y \in events : y.updated_at <= x.updated_at}}

LoggedAsPending(log, orderId) ==
    \A status \in LoggedStatuses(log, orderId) : status \in {"Pending", "Design", "Printing"}

\* C22: when fetchDashboardData has set the stats, the pending count is the
\* number of fetched orders whose latest logged status is Pending, Design or
\* Printing (no event counting as Pending), whatever became of the status
\* lookups; an order logged as Delivered is not counted.
C22_PendingCount ==
    [][(dashPc = "fetching" /\ dashPc' = "idle" /\ pageCall'.error = NoError) =>
          dashStats'.pendingOrders =
              Cardinality({i \in 1..Len(dashOrders') :
                              LoggedAsPending(order_status_log', dashOrders'[i].id)})]_vars

\* The Dashboard shows every fetched order as pending, and one of them is
\* logged as Delivered.
C22_Witness ==
    /\ dashPc = "idle"
    /\ Len(dashOrders) > 0
    /\ dashStats.pendingOrders = Len(dashOrders)
    /\ \E i \in 1..Len(dashOrders) :
          LoggedStatuses(order_status_log, dashOrders[i].id) = {"Delivered"}

(***************************************************************************)
(* Failures of the pages' requests.                                        *)
(***************************************************************************)
\* A page's data state is as useState left it.
DataAtDefault(page) ==
    CASE page = "Invoices" -> invoices = <<>>
      [] page = "InvoiceDetail" -> invoice = Null
      [] page = "Dashboard" ->
            dashStats = InitialStats /\ recentOrders = <<>> /\ recentInvoices = <<>>
      [] page = "OrderDetail" -> odOrder = Null

\* C23: when a request of a page's fetch function returns an error, the
\* function still completes without an error outcome (the error is caught
\* inside it), and a data state that was at its default (empty invoice list,
\* null invoice, null order, zeroed stats) is still at its default.
C23_FailureCaught ==
    [][\A page \in Pages :
          (Completed(page) /\ pageCall'.error # NoError) =>
              /\ pageCall'.outcome = Returned(Null)
              /\ DataAtDefault(page) => DataAtDefault(page)']_vars

\* Every page has fetched against a table that holds rows of the profile,
\* every fetch has ended, the last one on a failed request, and every data
\* state is at its default.
C23_Witness ==
    /\ user # Null
    /\ payments # <<>>
    /\ \A page \in Pages : ~InFlightFetch(page) /\ ~LoadingOf(page) /\ DataAtDefault(page)
    /\ pageCall # NoCall
    /\ pageCall.error = QueryFailed
    /\ pageCall.outcome = Returned(Null)

(***************************************************************************)
(* The filtered invoice list.                                              *)
(***************************************************************************)
\* q, letter case aside, is a run of consecutive characters of s.
SubstringIgnoringCase(q, s) ==
    \E from \in 1..(Len(s) + 1), to \in 0..Len(s) :
        /\ to - from + 1 = Len(q)
        /\ \A k \in 1..Len(q) : LowerChar(q[k]) = LowerChar(s[from + k - 1])

\* label is prefix followed by the last 6 characters of id (all of id when
\* it has fewer).
IsInvoiceDisplayId(label, id) ==
    LET n == IF Len(id) < 6 THEN Len(id) ELSE 6
    IN /\ Len(label) = 4 + n
       /\ SubSeq(label, 1, 4) = <<"I", "N", "V", "-">>
       /\ \A k \in 1..n : label[4 + k] = id[Len(id) - n + k]

\* label is ORD- followed by the decimal digits of n.
IsOrderDisplayId(label, n) ==
    /\ Len(label) > 4
    /\ SubSeq(label, 1, 4) = <<"O", "R", "D", "-">>
    /\ \A k \in 5..Len(label) : label[k] \in DOMAIN DigitValue
    /\ (Len(label) > 5 => label[5] # "0")
    /\ ParseDigits(SubSeq(label, 5, Len(label)), 0) = n

\* The labels of the fetched invoices.
DisplayLabels ==
    {InvoiceLabel(invoices[i]) : i \in 1..Len(invoices)} \cup
    {OrderLabel(invoices[i]) : i \in 1..Len(invoices)}

Listed(inv) ==
    \E j \in 1..Len(filteredInvoices(invoices, searchQuery, statusFilter)) :
        filteredInvoices(invoices, searchQuery, statusFilter)[j] = inv

\* C24: a fetched invoice is in the filtered list exactly when the search
\* query is, letter case aside, a substring of INV-<last 6 characters of id>
\* or, when it has an order, of ORD-<order_id>, and the status filter is
\* 'all' or is the invoice's status letter case aside; with an empty query
\* and filter 'all' the filtered list is the fetched list.
C24_FilteredInvoices ==
    /\ \A i \in 1..Len(invoices) :
          LET inv == invoices[i]
          IN Listed(inv) <=>
               /\ \/ \E label \in DisplayLabels :
                         /\ IsInvoiceDisplayId(label, inv.id)
                         /\ SubstringIgnoringCase(searchQuery, label)
                  \/ /\ inv.order_id # Null
                     /\ \E label \in DisplayLabels :
                           /\ IsOrderDisplayId(label, inv.order_id.value)
                           /\ SubstringIgnoringCase(searchQuery, label)
               /\ \/ statusFilter = <<"a", "l", "l">>
                  \/ /\ Len(statusFilter) = Len(StatusChars(inv.status))
                     /\ \A k \in 1..Len(statusFilter) :
                           LowerChar(statusFilter[k]) = LowerChar(StatusChars(inv.status)[k])
    /\ (searchQuery = <<>> /\ statusFilter = <<"a", "l", "l">>) =>
          filteredInvoices(invoices, searchQuery, statusFilter) = invoices

\* Three invoices are fetched; the query BC1 and the filter paid list only
\* the invoice whose id ends in bc1234.
C24_Witness ==
    /\ Len(invoices) = 3
    /\ searchQuery = <<"B", "C", "1">>
    /\ statusFilter = <<"p", "a", "i", "d">>
    /\ Len(filteredInvoices(invoices, searchQuery, statusFilter)) = 1
    /\ filteredInvoices(invoices, searchQuery, statusFilter)[1].id = PaymentId(1)

\* C29: a step that changes the search query or the status filter leaves
\* the fetched invoices and the three totals as they were and sends no
\* request (no fetch of any page is dispatched or answered); the totals
\* are those of all fetched invoices, whatever the filtered list is.
C29_FilterFrame ==
    [][(searchQuery' # searchQuery \/ statusFilter' # statusFilter) =>
          /\ invoices' = invoices
          /\ InvoicesRender'.totals = InvoicesRender.totals
          /\ UNCHANGED <<invPc, invLoading, invoicePc, dashPc, odPc, pageCall, lastRequest>>
          /\ LET I == 1..Len(invoices')
                 t == InvoicesRender'.totals
             IN /\ t.total = SumAt(invoices', I, LAMBDA r : r.total_amount)
                /\ t.paid = SumAt(invoices', {i \in I : invoices'[i].status = "Paid"},
                                  LAMBDA r : r.amount_paid)
                /\ t.pending =
                      SumAt(invoices', {i \in I : invoices'[i].status \in {"Due", "Partial"}},
                            LAMBDA r : r.total_amount - r.amount_paid)]_vars

\* Three invoices are fetched, the query and the filter leave none of them
\* in the list, and the totals are those of the three.
C29_Witness ==
    /\ Len(invoices) = 3
    /\ searchQuery = <<"x">>
    /\ statusFilter = <<"d", "u", "e">>
    /\ InvoicesRender.list = <<>>
    /\ InvoicesRender.totals = [total |-> 180, paid |-> 100, pending |-> 60]

(***************************************************************************)
(* Sign-out against lookups in flight.                                     *)
(***************************************************************************)
\* A sign-out has taken effect and nobody has signed in since: the session
\* is gone, and the callback has handled SIGNED_OUT or logout has succeeded.
SignedOut ==
    /\ session = Null
    /\ \/ handler.at = "done" /\ handler.event = "SIGNED_OUT"
       \/ logoutCall.at = "returned" /\ logoutCall.error = NoError

\* C25: once a sign-out has taken effect, and as long as nobody signs in,
\* user stays null: no step of the mounted session manager (a profile
\* lookup started before the sign-out and answered after it) sets it to a
\* profile.
C25_SignOutSticks ==
    [][(SignedOut /\ user = Null /\ session' = Null /\ mounted') =>
          user' = Null]_vars

\* The session is gone, the sign-out has taken effect, and user holds the
\* profile that login, called before the sign-out, has put there.
C25_Witness ==
    /\ SignedOut
    /\ mounted
    /\ impl = "context"
    /\ user # Null
    /\ loginCall.at = "returned"
    /\ "outcome" \in DOMAIN loginCall
    /\ loginCall.outcome.value = user

\* C26: while an identity stays signed in and user holds a profile, no step
\* of the mounted session manager (a sign-in callback or a login whose
\* profile lookup fails) puts null in its place.
C26_ProfileKept ==
    [][(session # Null /\ session' # Null /\ user # Null /\ mounted') =>
          user' # Null]_vars

\* The identity is signed in and has a profile, which the session check
\* stored; the callback then handled SIGNED_IN, its lookup failed, and user
\* is null.
C26_Witness ==
    /\ impl = "context"
    /\ mounted
    /\ session # Null
    /\ sessionCheck.at = "done"
    /\ "outcome" \in DOMAIN sessionCheck
    /\ sessionCheck.outcome.value # Null
    /\ handler.at = "done"
    /\ handler.event = "SIGNED_IN"
    /\ "selectError" \in DOMAIN handler
    /\ handler.selectError = QueryFailed
    /\ loginCall.at = "idle"
    /\ logoutCall.at = "idle"
    /\ user = Null

(***************************************************************************)
(* Order Detail's current status against getOrderStatus.                   *)
(***************************************************************************)
\* C27: for every status log and order, whatever the database answers to
\* the two requests, the current status Order Detail derives from
\* getOrderStatusHistory (status of the last entry, Pending when there is
\* none) is the value getOrderStatus returns, also when events of the order
\* carry the same updated_at.
C27_DetailAgreesWithHelper ==
    \A orderId \in OrderIds :
        \A history \in HistoryQuery(order_status_log, orderId),
           latest \in StatusQuery(order_status_log, orderId) :
            (history.error # QueryFailed /\ latest.error # QueryFailed) =>
                currentStatusOf(getOrderStatusHistory(history).value)
                    = getOrderStatus(latest).value

\* Two events of one order carry the same updated_at and different
\* statuses, and both helpers have an answer that ends in either.
C27_Witness ==
    \E e1, e2 \in order_status_log :
        /\ e1.order_id = e2.order_id
        /\ e1.updated_at = e2.updated_at
        /\ e1.status # e2.status
        /\ \A e \in order_status_log :
              e.order_id = e1.order_id => e.updated_at <= e1.updated_at
        /\ \E history \in HistoryQuery(order_status_log, e1.order_id),
              latest \in StatusQuery(order_status_log, e1.order_id) :
              /\ history.error = NoError
              /\ latest.error = NoError
              /\ currentStatusOf(getOrderStatusHistory(history).value) = e1.status
              /\ getOrderStatus(latest).value = e2.status

(***************************************************************************)
(* Whose rows the pages hold.                                              *)
(***************************************************************************)
\* The order and payment rows the pages hold in their state.
RowsInPageState ==
    {invoices[i] : i \in 1..Len(invoices)}
      \cup {recentInvoices[i] : i \in 1..Len(recentInvoices)}
      \cup {dashOrders[i] : i \in 1..Len(dashOrders)}
      \cup {recentOrders[i].order : i \in 1..Len(recentOrders)}
      \cup (IF invoice = Null THEN {} ELSE {invoice})
      \cup (IF odOrder = Null THEN {} ELSE {odOrder.data})

\* The route's order is in the table and is another customer's.
RouteOrderIsForeign ==
    \E i \in 1..Len(orders) :
        orders[i].id = ParseInt(odParam) /\ orders[i].customer_id # user.id

\* C28: every order and payment row in page state has the customer_id of
\* the current profile; Order Detail's status-history request is out only
\* after the order query for the route's id, the profile's customer_id and
\* is_deleted = false has succeeded; for an order of another customer no
\* status-history request is sent and the page ends with order = null.
C28_OwnDataOnly ==
    [][/\ \A row \in RowsInPageState' : user' # Null /\ row.customer_id = user'.id
       /\ odPc'.at = "history" =>
             /\ odPc.at \in {"order", "history"}
             /\ \E i \in 1..Len(orders) :
                   /\ orders[i] = odPc'.data
                   /\ orders[i].id = ParseInt(odParam)
                   /\ orders[i].customer_id = user.id
                   /\ orders[i].is_deleted = FALSE
       /\ (odPc.at = "order" /\ odPc'.at \in {"history", "idle"} /\ RouteOrderIsForeign) =>
             /\ odPc'.at = "idle"
             /\ odOrder' = Null
             /\ pageCall'.error # NoError]_vars

\* Order Detail was opened on another customer's order and ended with
\* order = null; Invoice Detail was opened on another customer's payment
\* and ended with invoice = null; the invoice list and the Dashboard hold
\* the profile's rows of tables that hold another customer's rows too.
C28_Witness ==
    /\ user # Null
    /\ odPc.at = "idle" /\ ~odLoading /\ RouteOrderIsForeign /\ odOrder = Null
    /\ invoicePc = "idle" /\ ~invoiceLoading /\ invoice = Null
    /\ \E i \in 1..Len(payments) :
          payments[i].id = invoiceId /\ payments[i].customer_id # user.id
    /\ Len(invoices) = 2
    /\ Len(dashOrders) = 1
    /\ Len(recentInvoices) = 2

(***************************************************************************)
(* updateProfile against a rejected update.                                *)
(***************************************************************************)
\* C30: the step on which updateProfile gets its answer either throws the
\* backend's error to the caller, leaving user and the table as they were,
\* or returns with a row the table now holds; no step of updateProfile
\* changes loading.
C30_RejectedUpdate ==
    [][/\ updateCall' # updateCall => loading' = loading
       /\ (updateCall.at = "request" /\ updateCall'.at # "request") =>
             \/ /\ updateCall'.at = "threw"
                /\ updateCall'.error \in {QueryFailed, PGRST116}
                /\ user' = user
                /\ customers' = customers
             \/ /\ updateCall'.at = "returned"
                /\ \E i \in 1..Len(customers') : customers'[i] = updateCall'.data]_vars

\* The backend rejected the update: updateProfile threw its error, and the
\* profile and the table are as they were when it was called.
C30_Witness ==
    /\ updateCall.at = "threw"
    /\ updateCall.error \in {QueryFailed, PGRST116}
    /\ user # Null
    /\ loading = FALSE
    /\ \E i \in 1..Len(customers) :
          /\ customers[i].user_id = user.user_id
          /\ customers[i].name = user.name
          /\ customers[i].name # <<"Z", "e", "d">>

====
